---------------------------- MODULE Spec2Model ----------------------------
(***************************************************************************)
(* Sundial: a generational mark-sweep heap (Heap), the reduction machine   *)
(* (Thread, reduce) and the session layer (Pod) of src/rt/mod.rs.          *)
(*                                                                         *)
(* A heap value is a record [nodes, generation]; every heap operation is   *)
(* an operator that takes the heap and returns the heap it leaves behind   *)
(* together with Rust's Result: err = "Ok" and a value, or err = the name  *)
(* of the Error variant.  Rust's `?` is the early return on err # "Ok".    *)
(***************************************************************************)
EXTENDS Integers, Sequences, FiniteSets, TLC

(***************************************************************************)
(* Bounds of the model.                                                    *)
(***************************************************************************)
\* number of slots given to Heap::with_capacity
Capacity == 24
\* largest time quota handed to reduce
MaxFuel == 6
\* every token sequence up to this length is a program
MaxLen == 2
\* slots of the heap that is driven call by call
HeapCapacity == 3
\* sweeps of that heap
MaxSweeps == 2
\* roots marked between two sweeps
MaxRoots == 1
\* pointers that heap returns in all
MaxIssued == 4
\* calls made on that heap
MaxCalls == 7
PodCapacity == 8
MaxEvals == 4

(***************************************************************************)
(* Object model                                                            *)
(***************************************************************************)
Gc(index, generation) == [index |-> index, generation |-> generation]

\* the absence of a pointer (an Option<Gc> that is None, a Result that is Err)
NoGc == Gc(-1, -1)

Opcodes == {"App", "Box", "Cat", "Copy", "Drop", "Swap", "Prop", "Forall"}

\* Object::{Id, Opcode, Word, Hint, Block, Sequence}; the payload of an
\* Opcode, Word or Hint is val, of a Block fst, of a Sequence fst and snd.
Object(kind, val, fst, snd) == [kind |-> kind, val |-> val, fst |-> fst, snd |-> snd]

ObjId == Object("Id", "", NoGc, NoGc)
ObjOpcode(opcode) == Object("Opcode", opcode, NoGc, NoGc)
ObjWord(value) == Object("Word", value, NoGc, NoGc)
ObjHint(value) == Object("Hint", value, NoGc, NoGc)
ObjBlock(body) == Object("Block", "", body, NoGc)
ObjSequence(fst, snd) == Object("Sequence", "", fst, snd)

\* Node::new: a fresh node is not visible
Node(object, generation) ==
  [object |-> object, generation |-> generation, is_visible |-> FALSE]

\* Option<Node>::None
None == [object |-> Object("None", "", NoGc, NoGc), generation |-> -1, is_visible |-> FALSE]

IsSome(maybe_node) == maybe_node.object.kind # "None"

\* Result<T>: Ok(val) or Err(err), with the heap the call leaves behind
Ok(h, val) == [h |-> h, err |-> "Ok", val |-> val]
Err(h, error) == [h |-> h, err |-> error, val |-> NoGc]

\* `let r = ...;` followed by the code k that uses r
Let(r, k(_)) == k(r)

\* Rust's `?`: an Err returns at once, an Ok goes on with k
Try(r, k(_)) == IF r.err # "Ok" THEN Err(r.h, r.err) ELSE k(r)

(***************************************************************************)
(* Heap                                                                    *)
(***************************************************************************)
\* Heap::with_capacity
with_capacity(capacity) ==
  [nodes |-> [i \in 0 .. (capacity - 1) |-> None], generation |-> 0]

\* the indices of self.nodes
Slots(h) == DOMAIN h.nodes

\* Heap::get_ref
get_ref(h, pointer) ==
  LET maybe_node == h.nodes[pointer.index] IN
  IF IsSome(maybe_node)
    THEN IF maybe_node.generation = pointer.generation
           THEN [err |-> "Ok", object |-> maybe_node.object]
           ELSE [err |-> "Null", object |-> None.object]
    ELSE [err |-> "Null", object |-> None.object]

\* a pointer is valid while its slot is occupied and carries its generation
IsValid(h, pointer) ==
  /\ pointer.index \in Slots(h)
  /\ get_ref(h, pointer).err = "Ok"

\* put that wraps around to slot 0 when no slot is empty
put_overwrite(h, object) ==
  LET free == {i \in Slots(h) : ~IsSome(h.nodes[i])} IN
  LET index == IF free = {} THEN 0 ELSE CHOOSE i \in free : \A j \in free : i <= j IN
  Ok([h EXCEPT !.nodes[index] = Node(object, h.generation)],
     Gc(index, h.generation))

\* put that takes the last empty slot
put_last_fit(h, object) ==
  LET free == {i \in Slots(h) : ~IsSome(h.nodes[i])} IN
  IF free = {}
    THEN Err(h, "Space")
    ELSE LET index == CHOOSE i \in free : \A j \in free : i >= j IN
         Ok([h EXCEPT !.nodes[index] = Node(object, h.generation)],
            Gc(index, h.generation))

\* Heap::put: first fit
put(h, object) ==
  LET free == {i \in Slots(h) : ~IsSome(h.nodes[i])} IN
  IF free = {}
    THEN Err(h, "Space")
    ELSE LET index == CHOOSE i \in free : \A j \in free : i <= j IN
         Ok([h EXCEPT !.nodes[index] = Node(object, h.generation)],
            Gc(index, h.generation))

new_id(h) == put(h, ObjId)
new_opcode(h, opcode) == put(h, ObjOpcode(opcode))
new_word(h, value) == put(h, ObjWord(value))
new_hint(h, value) == put(h, ObjHint(value))
new_block(h, body) == put(h, ObjBlock(body))

\* is_block that takes a Word for a block as well
is_block_or_word(h, pointer) ==
  LET r == get_ref(h, pointer) IN
  IF r.err # "Ok" THEN [err |-> r.err, val |-> FALSE]
  ELSE [err |-> "Ok", val |-> r.object.kind \in {"Block", "Word"}]

\* Heap::is_*: Err(Null) on an invalid pointer, else whether the kind matches
is_kind(h, pointer, kind) ==
  LET r == get_ref(h, pointer) IN
  IF r.err # "Ok" THEN [err |-> r.err, val |-> FALSE]
  ELSE [err |-> "Ok", val |-> r.object.kind = kind]

is_id(h, pointer) == is_kind(h, pointer, "Id")
is_opcode(h, pointer) == is_kind(h, pointer, "Opcode")
is_word(h, pointer) == is_kind(h, pointer, "Word")
is_hint(h, pointer) == is_kind(h, pointer, "Hint")
is_block(h, pointer) == is_kind(h, pointer, "Block")
is_sequence(h, pointer) == is_kind(h, pointer, "Sequence")

\* get_* that hands out the payload without looking at the kind
get_field_untyped(h, pointer, kind, field) ==
  LET r == get_ref(h, pointer) IN
  IF r.err # "Ok" THEN [err |-> r.err, val |-> None.object[field]]
  ELSE [err |-> "Ok", val |-> r.object[field]]

\* Heap::get_*: Err(Null) on an invalid pointer, Err(Tag) on another kind
get_field(h, pointer, kind, field) ==
  LET r == get_ref(h, pointer) IN
  IF r.err # "Ok" THEN [err |-> r.err, val |-> None.object[field]]
  ELSE IF r.object.kind # kind THEN [err |-> "Tag", val |-> None.object[field]]
  ELSE [err |-> "Ok", val |-> r.object[field]]

get_opcode(h, pointer) == get_field(h, pointer, "Opcode", "val")
get_word(h, pointer) == get_field(h, pointer, "Word", "val")
get_hint(h, pointer) == get_field(h, pointer, "Hint", "val")
get_block_body(h, pointer) == get_field(h, pointer, "Block", "fst")
get_sequence_fst(h, pointer) == get_field(h, pointer, "Sequence", "fst")
get_sequence_snd(h, pointer) == get_field(h, pointer, "Sequence", "snd")

\* new_sequence without the arm that re-associates a Sequence on the left
new_sequence_nested(h, fst, snd) ==
  LET fst_is_id == is_id(h, fst) IN
  IF fst_is_id.err # "Ok" THEN Err(h, fst_is_id.err)
  ELSE IF fst_is_id.val THEN Ok(h, snd)
  ELSE put(h, ObjSequence(fst, snd))

\* new_sequence without the arm that returns snd for an Id on the left
RECURSIVE new_sequence_keep_id(_, _, _)
new_sequence_keep_id(h, fst, snd) ==
  LET fst_is_id == is_id(h, fst) IN
  IF fst_is_id.err # "Ok" THEN Err(h, fst_is_id.err)
  ELSE IF is_sequence(h, fst).val
    THEN LET fst_fst == get_sequence_fst(h, fst).val
             fst_snd == get_sequence_snd(h, fst).val
             rhs == new_sequence_keep_id(h, fst_snd, snd)
         IN IF rhs.err # "Ok" THEN rhs
            ELSE new_sequence_keep_id(rhs.h, fst_fst, rhs.val)
    ELSE put(h, ObjSequence(fst, snd))

\* Heap::new_sequence: an Id on the left yields snd, a Sequence on the left
\* is re-associated to the right, snd itself is never inspected
RECURSIVE new_sequence(_, _, _)
new_sequence(h, fst, snd) ==
  LET fst_is_id == is_id(h, fst) IN
  IF fst_is_id.err # "Ok" THEN Err(h, fst_is_id.err)
  ELSE IF fst_is_id.val THEN Ok(h, snd)
  ELSE IF is_sequence(h, fst).val
    THEN LET fst_fst == get_sequence_fst(h, fst).val
             fst_snd == get_sequence_snd(h, fst).val
             rhs == new_sequence(h, fst_snd, snd)
         IN IF rhs.err # "Ok" THEN rhs
            ELSE new_sequence(rhs.h, fst_fst, rhs.val)
    ELSE put(h, ObjSequence(fst, snd))


\* Heap::mark: no visited check, and the first invalid pointer met ends the
\* walk with Err(Null), the flags set so far staying set
RECURSIVE mark(_, _)
mark(h, root) ==
  LET maybe_node == h.nodes[root.index] IN
  IF ~IsSome(maybe_node) THEN Err(h, "Null")
  ELSE IF maybe_node.generation # root.generation THEN Err(h, "Null")
  ELSE LET h1 == [h EXCEPT !.nodes[root.index].is_visible = TRUE]
           object == maybe_node.object
       IN CASE object.kind = "Block" -> mark(h1, object.fst)
            [] object.kind = "Sequence" ->
                 LET r == mark(h1, object.fst) IN
                 IF r.err # "Ok" THEN r ELSE mark(r.h, object.snd)
            [] OTHER -> Ok(h1, NoGc)

\* what sweep does to one slot
SweepNode(maybe_node) ==
  IF IsSome(maybe_node) /\ maybe_node.is_visible
    THEN [maybe_node EXCEPT !.is_visible = FALSE]
    ELSE None

\* sweep that leaves the generation of the heap as it is
sweep_same_generation(h) ==
  Ok([nodes |-> [i \in Slots(h) |-> SweepNode(h.nodes[i])],
      generation |-> h.generation], NoGc)

\* Heap::sweep
sweep(h) ==
  Ok([nodes |-> [i \in Slots(h) |-> SweepNode(h.nodes[i])],
      generation |-> h.generation + 1], NoGc)

(***************************************************************************)
(* parse and quote.  Source text is a sequence of whitespace-separated     *)
(* words, "[" and "]" already split off (src.replace and split_whitespace).*)
(***************************************************************************)
Reverse(s) == [i \in 1 .. Len(s) |-> s[Len(s) + 1 - i]]

\* the loop `for object in items { xs = heap.new_sequence(*object, xs)?; }`,
\* items in the order the loop visits them
RECURSIVE sequence_each(_, _, _)
sequence_each(h, items, xs) ==
  IF items = <<>> THEN Ok(h, xs)
  ELSE Try(new_sequence(h, Head(items), xs),
           LAMBDA r : sequence_each(r.h, Tail(items), r.val))

\* that loop started from the first item it visits, no Id behind it
id_then_each_collapsed(h, items) ==
  IF items = <<>> THEN new_id(h)
  ELSE sequence_each(h, Tail(items), Head(items))

\* `let mut xs = heap.new_id()?;` followed by that loop
id_then_each(h, items) ==
  Try(new_id(h), LAMBDA xs : sequence_each(xs.h, items, xs.val))

\* the words parse turns into opcodes
OpcodeOf ==
  [w \in {"a", "b", "c", "d", "e", "f", "g", "h"} |->
     CASE w = "a" -> "App" [] w = "b" -> "Box" [] w = "c" -> "Cat"
       [] w = "d" -> "Copy" [] w = "e" -> "Drop" [] w = "f" -> "Swap"
       [] w = "g" -> "Forall" [] w = "h" -> "Prop"]

\* the letter quote writes for an opcode
LetterOf ==
  [o \in Opcodes |->
     CASE o = "App" -> "a" [] o = "Box" -> "b" [] o = "Cat" -> "c"
       [] o = "Copy" -> "d" [] o = "Drop" -> "e" [] o = "Swap" -> "f"
       [] o = "Forall" -> "g" [] o = "Prop" -> "h"]

\* a one-letter lowercase word that is no opcode is a syntax error
LowercaseLetters == {"z"}
\* words HINT_REGEX matches, with the name it captures
HintNames == [w \in {"(n)"} |-> "n"]
\* every other word becomes a Word: "k0" can be a key of the library, "A" cannot
Words == {"A", "k0"}
Keys == {"k0"}

Tokens == {"[", "]"} \cup DOMAIN OpcodeOf \cup LowercaseLetters
            \cup DOMAIN HintNames \cup Words

\* one word that allocates a leaf: the match arms "a" .. "h" and `_` of parse
parse_word(h, word) ==
  IF word \in DOMAIN OpcodeOf THEN new_opcode(h, OpcodeOf[word])
  ELSE IF word \in LowercaseLetters THEN Err(h, "Syntax")
  ELSE IF word \in DOMAIN HintNames THEN new_hint(h, HintNames[word])
  ELSE new_word(h, word)

\* the loop of parse from word i on, build and stack as in the code
RECURSIVE parse_from(_, _, _, _, _)
parse_from(src, i, build, stack, h) ==
  IF i > Len(src)
    THEN IF stack # <<>> THEN Err(h, "Syntax")
         ELSE id_then_each(h, Reverse(build))
  ELSE IF src[i] = "["
    THEN parse_from(src, i + 1, <<>>, Append(stack, build), h)
  ELSE IF src[i] = "]"
    THEN IF stack = <<>> THEN Err(h, "Syntax")
         ELSE Try(id_then_each(h, Reverse(build)), LAMBDA xs :
              Try(new_block(xs.h, xs.val), LAMBDA block :
              parse_from(src, i + 1, Append(stack[Len(stack)], block.val),
                         SubSeq(stack, 1, Len(stack) - 1), block.h)))
  ELSE Try(parse_word(h, src[i]), LAMBDA object :
       parse_from(src, i + 1, Append(build, object.val), stack, object.h))

parse(src, h) == parse_from(src, 1, <<>>, <<>>, h)

\* quote: the pieces pushed onto buf, or the error of the first invalid pointer
RECURSIVE quote(_, _)
quote(h, root) ==
  LET r == get_ref(h, root) IN
  IF r.err # "Ok" THEN [err |-> r.err, buf |-> <<>>]
  ELSE CASE r.object.kind = "Id" -> [err |-> "Ok", buf |-> <<>>]
         [] r.object.kind = "Opcode" -> [err |-> "Ok", buf |-> <<LetterOf[r.object.val]>>]
         [] r.object.kind = "Word" -> [err |-> "Ok", buf |-> <<r.object.val>>]
         [] r.object.kind = "Hint" -> [err |-> "Ok", buf |-> <<"(", r.object.val, ")">>]
         [] r.object.kind = "Block" ->
              LET body == quote(h, r.object.fst) IN
              IF body.err # "Ok" THEN body
              ELSE [err |-> "Ok", buf |-> <<"[">> \o body.buf \o <<"]">>]
         [] r.object.kind = "Sequence" ->
              LET fst == quote(h, r.object.fst)
                  snd_is_id == is_id(h, r.object.snd)
              IN IF fst.err # "Ok" THEN fst
                 ELSE IF snd_is_id.err # "Ok" THEN [err |-> snd_is_id.err, buf |-> <<>>]
                 ELSE IF snd_is_id.val THEN fst
                 ELSE LET snd == quote(h, r.object.snd) IN
                      IF snd.err # "Ok" THEN snd
                      ELSE [err |-> "Ok", buf |-> fst.buf \o <<" ">> \o snd.buf]

(***************************************************************************)
(* Thread: the frame is [con, env, err], con's front at index 1, env's and *)
(* err's top at the last index.                                            *)
(***************************************************************************)
Frame(con, env, err) == [con |-> con, env |-> env, err |-> err]

\* Thread::with_continuation, Frame::new
with_continuation(continuation) == Frame(<<continuation>>, <<>>, <<>>)

has_continuation(frame) == frame.con # <<>>

\* the result of a Thread method: the frame and heap it leaves, and Result
Done(frame, h, val) == [frame |-> frame, h |-> h, err |-> "Ok", val |-> val]
Fail(frame, h, error) == [frame |-> frame, h |-> h, err |-> error, val |-> NoGc]

\* the order in which get_continuation's loop visits the continuation
con_iter(con) == con

\* a Thread method that builds the term xs and then clears part of the frame
Flushed(frame, cleared, xs) ==
  IF xs.err # "Ok" THEN Fail(frame, xs.h, xs.err) ELSE Done(cleared, xs.h, xs.val)

\* Thread::get_continuation
get_continuation(frame, h) ==
  Flushed(frame, [frame EXCEPT !.con = <<>>], id_then_each(h, con_iter(frame.con)))

\* pop_continuation that pushes the left child first, so that the right
\* child is in front
RECURSIVE pop_continuation_right_first(_, _)
pop_continuation_right_first(frame, h) ==
  IF frame.con = <<>> THEN Fail(frame, h, "Bug")
  ELSE LET code == Head(frame.con)
           rest == Tail(frame.con)
           code_is_sequence == is_sequence(h, code)
       IN IF code_is_sequence.err # "Ok"
            THEN Fail([frame EXCEPT !.con = rest], h, code_is_sequence.err)
          ELSE IF code_is_sequence.val
            THEN pop_continuation_right_first(
                   [frame EXCEPT !.con = <<get_sequence_snd(h, code).val,
                                           get_sequence_fst(h, code).val>> \o rest], h)
          ELSE Done([frame EXCEPT !.con = rest], h, code)

\* Thread::pop_continuation
RECURSIVE pop_continuation(_, _)
pop_continuation(frame, h) ==
  IF frame.con = <<>> THEN Fail(frame, h, "Bug")
  ELSE LET code == Head(frame.con)
           rest == Tail(frame.con)
           code_is_sequence == is_sequence(h, code)
       IN IF code_is_sequence.err # "Ok"
            THEN Fail([frame EXCEPT !.con = rest], h, code_is_sequence.err)
          ELSE IF code_is_sequence.val
            THEN pop_continuation(
                   [frame EXCEPT !.con = <<get_sequence_fst(h, code).val,
                                           get_sequence_snd(h, code).val>> \o rest], h)
          ELSE Done([frame EXCEPT !.con = rest], h, code)

\* is_monadic that is content with an empty environment
is_monadic_any(frame) == Len(frame.env) >= 0

is_monadic(frame) == Len(frame.env) >= 1

\* is_dyadic that is content with one entry
is_dyadic_one(frame) == Len(frame.env) >= 1

is_dyadic(frame) == Len(frame.env) >= 2

\* get_environment with its two loops in the other order
get_environment_first(frame, h) ==
  Flushed(frame, [frame EXCEPT !.env = <<>>, !.err = <<>>],
          Try(new_id(h), LAMBDA xs :
          Try(sequence_each(xs.h, Reverse(frame.err), xs.val), LAMBDA e :
          sequence_each(e.h, Reverse(frame.env), e.val))))

\* Thread::get_environment: the environment is prepended first, the thunk
\* list after it, so the term reads thunk list, then environment
get_environment(frame, h) ==
  Flushed(frame, [frame EXCEPT !.env = <<>>, !.err = <<>>],
          Try(new_id(h), LAMBDA xs :
          Try(sequence_each(xs.h, Reverse(frame.env), xs.val), LAMBDA e :
          sequence_each(e.h, Reverse(frame.err), e.val))))

push_environment(frame, data) == [frame EXCEPT !.env = Append(@, data)]

\* the code goes behind what is pending, not in front of it
push_continuation_back(frame, data) == [frame EXCEPT !.con = @ \o <<data>>]

push_continuation_front(frame, data) == [frame EXCEPT !.con = <<data>> \o @]

\* thunk that throws the environment away
thunk_drop(frame, root) ==
  [frame EXCEPT !.err = Append(frame.err, root), !.env = <<>>]

\* thunk with the environment copied into the thunk list, not moved
thunk_copy(frame, root) ==
  [frame EXCEPT !.err = Append(frame.err \o frame.env, root)]

\* Thread::thunk
thunk(frame, root) ==
  [frame EXCEPT !.err = Append(frame.err \o frame.env, root), !.env = <<>>]

\* a table in which no word is found
tab_get_none(tab, value) == NoGc

\* Option<&Gc> of `tab.get(&code_value)`: NoGc stands for Option::None
tab_get(tab, value) == IF value \in DOMAIN tab THEN tab[value] ELSE NoGc

\* what a Step did, for the record: "push" (a block went onto the
\* environment), "rule" (an opcode ran), "stuck" (thunk), "splice" (a bound
\* word), "noop" (Id or Hint)
Stepped(frame, h, did) == [frame |-> frame, h |-> h, err |-> "Ok", did |-> did]
Crashed(frame, h, error) == [frame |-> frame, h |-> h, err |-> error, did |-> "error"]

\* the end of an arm that pushes the node it has just allocated
Pushed(frame, target) ==
  IF target.err # "Ok" THEN Crashed(frame, target.h, target.err)
  ELSE Stepped(push_environment(frame, target.val), target.h, "rule")

\* pop_environment that takes the bottom entry
pop_environment_bottom(frame) ==
  IF frame.env = <<>> THEN [frame |-> frame, err |-> "Underflow", val |-> NoGc]
  ELSE [frame |-> [frame EXCEPT !.env = Tail(@)], err |-> "Ok", val |-> Head(frame.env)]

\* peek_environment that takes the entry off the environment
peek_environment_pops(frame) ==
  IF frame.env = <<>> THEN [frame |-> frame, err |-> "Underflow", val |-> NoGc]
  ELSE [frame |-> [frame EXCEPT !.env = SubSeq(@, 1, Len(@) - 1)],
        err |-> "Ok", val |-> frame.env[Len(frame.env)]]

\* Thread::pop_environment and Thread::peek_environment: Err(Underflow) on
\* an empty environment
pop_environment(frame) ==
  IF frame.env = <<>> THEN [frame |-> frame, err |-> "Underflow", val |-> NoGc]
  ELSE [frame |-> [frame EXCEPT !.env = SubSeq(@, 1, Len(@) - 1)],
        err |-> "Ok", val |-> frame.env[Len(frame.env)]]

peek_environment(frame) ==
  IF frame.env = <<>> THEN [frame |-> frame, err |-> "Underflow", val |-> NoGc]
  ELSE [frame |-> frame, err |-> "Ok", val |-> frame.env[Len(frame.env)]]

\* `?` inside step on a Result or on the outcome r of a Thread method: an
\* Err ends the Step with the frame as it is by then
Pop(r, h, k(_)) == IF r.err # "Ok" THEN Crashed(r.frame, h, r.err) ELSE k(r)
Get(r, frame, h, k(_)) == IF r.err # "Ok" THEN Crashed(frame, h, r.err) ELSE k(r)

\* the opcode arms of Thread::step, frame being the frame after the pop
step_opcode(frame, h, code, opcode) ==
  CASE opcode = "App" ->
         IF ~is_monadic(frame) THEN Stepped(thunk(frame, code), h, "stuck")
         ELSE Pop(pop_environment(frame), h, LAMBDA source :
              Get(get_block_body(h, source.val), source.frame, h, LAMBDA target :
              Stepped(push_continuation_front(source.frame, target.val), h, "rule")))
    [] opcode = "Box" ->
         IF ~is_monadic(frame) THEN Stepped(thunk(frame, code), h, "stuck")
         ELSE Pop(pop_environment(frame), h, LAMBDA source :
              Pushed(source.frame, new_block(h, source.val)))
    [] opcode = "Cat" ->
         IF ~is_dyadic(frame) THEN Stepped(thunk(frame, code), h, "stuck")
         ELSE Pop(pop_environment(frame), h, LAMBDA rhs :
              Pop(pop_environment(rhs.frame), h, LAMBDA lhs :
              Get(get_block_body(h, rhs.val), lhs.frame, h, LAMBDA rhs_body :
              Get(get_block_body(h, lhs.val), lhs.frame, h, LAMBDA lhs_body :
              Pushed(lhs.frame,
                     Try(new_sequence(h, lhs_body.val, rhs_body.val),
                         LAMBDA target_body :
                           new_block(target_body.h, target_body.val)))))))
    [] opcode = "Copy" ->
         IF ~is_monadic(frame) THEN Stepped(thunk(frame, code), h, "stuck")
         ELSE Pop(peek_environment(frame), h, LAMBDA source :
              Stepped(push_environment(source.frame, source.val), h, "rule"))
    [] opcode = "Drop" ->
         IF ~is_monadic(frame) THEN Stepped(thunk(frame, code), h, "stuck")
         ELSE Pop(pop_environment(frame), h, LAMBDA source :
              Stepped(source.frame, h, "rule"))
    [] opcode = "Swap" ->
         IF ~is_dyadic(frame) THEN Stepped(thunk(frame, code), h, "stuck")
         ELSE Pop(pop_environment(frame), h, LAMBDA fst :
              Pop(pop_environment(fst.frame), h, LAMBDA snd :
              Stepped(push_environment(push_environment(snd.frame, fst.val), snd.val),
                      h, "rule")))
    [] opcode \in {"Prop", "Forall"} -> Stepped(thunk(frame, code), h, "stuck")

\* Thread::step after `let code = self.pop_continuation(heap)?;`
dispatch(popped, h, tab) ==
  LET frame == popped.frame
      code == popped.val
  IN
  IF popped.err # "Ok" THEN Crashed(frame, h, popped.err)
  ELSE IF is_block(h, code).err # "Ok" THEN Crashed(frame, h, is_block(h, code).err)
  ELSE IF is_block(h, code).val THEN Stepped(push_environment(frame, code), h, "push")
  ELSE IF is_opcode(h, code).val
    THEN step_opcode(frame, h, code, get_opcode(h, code).val)
  ELSE IF is_word(h, code).val
    THEN LET binding == tab_get(tab, get_word(h, code).val) IN
         IF binding # NoGc
           THEN Stepped(push_continuation_front(frame, binding), h, "splice")
           ELSE Stepped(thunk(frame, code), h, "stuck")
  ELSE IF is_id(h, code).val \/ is_hint(h, code).val THEN Stepped(frame, h, "noop")
  ELSE Crashed(frame, h, "Bug")

\* Thread::step
step(frame, h, tab) == dispatch(pop_continuation(frame, h), h, tab)

\* a Step that takes no fuel
tick_free(time_quota) == time_quota

\* `time_quota -= 1`
tick(time_quota) == time_quota - 1

\* the loop condition with `>=` for `>`
may_step_at_zero(frame, time_quota) == time_quota >= 0 /\ has_continuation(frame)

\* the loop condition of reduce
may_step(frame, time_quota) == time_quota > 0 /\ has_continuation(frame)

\* the while loop of reduce: the frame, heap and quota it ends with, the
\* number of Steps it made, and the error of the Step that ended it early
RECURSIVE run(_, _, _, _, _)
run(frame, h, tab, time_quota, steps) ==
  IF ~may_step(frame, time_quota)
    THEN [frame |-> frame, h |-> h, err |-> "Ok", time_quota |-> time_quota, steps |-> steps]
  ELSE Let(step(frame, h, tab), LAMBDA s :
       IF s.err # "Ok"
         THEN [frame |-> s.frame, h |-> s.h, err |-> s.err,
               time_quota |-> tick(time_quota), steps |-> steps + 1]
       ELSE run(s.frame, s.h, tab, tick(time_quota), steps + 1))

\* reduce returning the environment alone, pending code or not
reduce_exit_environment(frame, h) ==
  Try(get_environment(frame, h), LAMBDA env : Ok(env.h, env.val))

\* what reduce does once its loop has ended
reduce_exit(frame, h) ==
  IF has_continuation(frame)
    THEN Try(get_continuation(frame, h), LAMBDA snd :
         Try(get_environment(snd.frame, snd.h), LAMBDA fst :
         new_sequence(fst.h, fst.val, snd.val)))
  ELSE Try(get_environment(frame, h), LAMBDA env : Ok(env.h, env.val))

\* reduce
reduce(continuation, h, tab, time_quota) ==
  Try(run(with_continuation(continuation), h, tab, time_quota, 0),
      LAMBDA r : reduce_exit(r.frame, r.h))

(***************************************************************************)
(* Pod                                                                     *)
(***************************************************************************)
\* HashMap::new, insert and remove; a key maps to NoGc while it is absent
tab_new == [k \in Keys |-> NoGc]
tab_insert(tab, key, value) == [tab EXCEPT ![key] = value]
tab_remove(tab, key) == [tab EXCEPT ![key] = NoGc]
tab_values(tab) == {tab[k] : k \in {k \in DOMAIN tab : tab[k] # NoGc}}

\* `for pointer in self.tab.values() { self.heap.mark(*pointer)?; }`
RECURSIVE mark_each(_, _)
mark_each(h, pointers) ==
  IF pointers = {} THEN Ok(h, NoGc)
  ELSE Let(CHOOSE p \in pointers : TRUE, LAMBDA pointer :
       Try(mark(h, pointer), LAMBDA r : mark_each(r.h, pointers \ {pointer})))

\* the tail of Pod::eval with the sweep and no mark before it
collect_unmarked(h, tab) == sweep(h)

\* the tail of Pod::eval: mark every binding, then sweep
collect(h, tab) ==
  Try(mark_each(h, tab_values(tab)), LAMBDA m : sweep(m.h))

\* Pod::eval on an insert line `:key value`
eval_insert(h, tab, key, value_src, time_quota) ==
  Let(Try(parse(value_src, h), LAMBDA parsed :
          reduce(parsed.val, parsed.h, tab, time_quota)),
      LAMBDA value :
        IF value.err # "Ok" THEN [h |-> value.h, tab |-> tab, err |-> value.err]
        ELSE Let(collect(value.h, tab_insert(tab, key, value.val)), LAMBDA c :
             [h |-> c.h, tab |-> tab_insert(tab, key, value.val), err |-> c.err]))

\* Pod::eval on a delete line `~key`
eval_delete(h, tab, key) ==
  Let(collect(h, tab_remove(tab, key)), LAMBDA c :
  [h |-> c.h, tab |-> tab_remove(tab, key), err |-> c.err])

\* Pod::eval on any other line: parse, reduce, quote (which reads the heap
\* only), then the tail; `?` returns before the tail
eval_plain(h, tab, src, time_quota) ==
  Let(Try(parse(src, h), LAMBDA source :
          reduce(source.val, source.h, tab, time_quota)),
      LAMBDA target :
        IF target.err # "Ok" THEN [h |-> target.h, tab |-> tab, err |-> target.err]
        ELSE IF quote(target.h, target.val).err # "Ok"
          THEN [h |-> target.h, tab |-> tab, err |-> quote(target.h, target.val).err]
        ELSE Let(collect(target.h, tab), LAMBDA c :
             [h |-> c.h, tab |-> tab, err |-> c.err]))

(***************************************************************************)
(* The machine of src/v1/run.rs: the same Thread over mem::Mem, with the   *)
(* instruction Fix.  The module mem is not part of the sources; its        *)
(* constructors and its parser are written here as the specification of    *)
(* the heap describes them, on the heap above.                             *)
(***************************************************************************)
\* mem.new_cat: Empty on the left yields snd, Empty on the right yields
\* fst, a Concatenation on the left is re-associated to the right
RECURSIVE new_cat(_, _, _)
new_cat(h, fst, snd) ==
  LET fst_is_nil == is_id(h, fst)
      snd_is_nil == is_id(h, snd)
  IN
  IF fst_is_nil.err # "Ok" THEN Err(h, fst_is_nil.err)
  ELSE IF fst_is_nil.val THEN Ok(h, snd)
  ELSE IF snd_is_nil.err # "Ok" THEN Err(h, snd_is_nil.err)
  ELSE IF snd_is_nil.val THEN Ok(h, fst)
  ELSE IF is_sequence(h, fst).val
    THEN LET rhs == new_cat(h, get_sequence_snd(h, fst).val, snd) IN
         IF rhs.err # "Ok" THEN rhs
         ELSE new_cat(rhs.h, get_sequence_fst(h, fst).val, rhs.val)
    ELSE put(h, ObjSequence(fst, snd))

\* the composition of a list of terms, the last one innermost
RECURSIVE cat_each(_, _, _)
cat_each(h, items, xs) ==
  IF items = <<>> THEN Ok(h, xs)
  ELSE Try(new_cat(h, Head(items), xs),
           LAMBDA r : cat_each(r.h, Tail(items), r.val))

\* the parser of mem: "fix" is the name of Fix, the other names are those
\* of parse
parse_word_v1(h, word) ==
  IF word = "fix" THEN new_opcode(h, "Fix") ELSE parse_word(h, word)

RECURSIVE parse_from_v1(_, _, _, _, _)
parse_from_v1(src, i, build, stack, h) ==
  IF i > Len(src)
    THEN IF stack # <<>> THEN Err(h, "Syntax")
         ELSE Try(new_id(h), LAMBDA xs : cat_each(xs.h, Reverse(build), xs.val))
  ELSE IF src[i] = "["
    THEN parse_from_v1(src, i + 1, <<>>, Append(stack, build), h)
  ELSE IF src[i] = "]"
    THEN IF stack = <<>> THEN Err(h, "Syntax")
         ELSE Try(new_id(h), LAMBDA nil :
              Try(cat_each(nil.h, Reverse(build), nil.val), LAMBDA xs :
              Try(new_block(xs.h, xs.val), LAMBDA block :
              parse_from_v1(src, i + 1, Append(stack[Len(stack)], block.val),
                            SubSeq(stack, 1, Len(stack) - 1), block.h))))
  ELSE Try(parse_word_v1(h, src[i]), LAMBDA object :
       parse_from_v1(src, i + 1, Append(build, object.val), stack, object.h))

\* the Fix arm with the body in front of the quotation and the instruction
step_fix_body_first(frame, h, code) ==
  IF ~is_monadic(frame) THEN Stepped(thunk(frame, code), h, "stuck")
  ELSE Pop(pop_environment(frame), h, LAMBDA source :
       Get(get_block_body(h, source.val), source.frame, h, LAMBDA source_body :
       Pushed(source.frame,
              Try(new_cat(h, source.val, code), LAMBDA fixed :
              Try(new_cat(fixed.h, source_body.val, fixed.val), LAMBDA target_body :
              new_block(target_body.h, target_body.val))))))

\* the arm Bit::Fix of Thread::step
step_fix(frame, h, code) ==
  IF ~is_monadic(frame) THEN Stepped(thunk(frame, code), h, "stuck")
  ELSE Pop(pop_environment(frame), h, LAMBDA source :
       Get(get_block_body(h, source.val), source.frame, h, LAMBDA source_body :
       Pushed(source.frame,
              Try(new_cat(h, source.val, code), LAMBDA fixed :
              Try(new_cat(fixed.h, fixed.val, source_body.val), LAMBDA target_body :
              new_block(target_body.h, target_body.val))))))

\* Thread::step of v1: the arms of step, and the arm of Fix
v1_step(frame, h, tab) ==
  Let(pop_continuation(frame, h), LAMBDA popped :
    IF popped.err = "Ok" /\ get_opcode(h, popped.val).err = "Ok"
                         /\ get_opcode(h, popped.val).val = "Fix"
      THEN step_fix(popped.frame, h, popped.val)
      ELSE dispatch(popped, h, tab))

\* programs with Fix: under-supplied, supplied, applied, nested, repeated
V1Programs ==
  { <<"fix">>,
    <<"[", "A", "]", "fix">>,
    <<"[", "]", "fix">>,
    <<"[", "A", "]", "fix", "a">>,
    <<"[", "A", "k0", "]", "fix", "a">>,
    <<"[", "e", "]", "fix", "a">>,
    <<"[", "[", "A", "]", "]", "fix", "d", "a">>,
    <<"[", "A", "]", "[", "k0", "]", "fix", "f">>,
    <<"[", "A", "]", "fix", "fix", "a", "a">>,
    <<"[", "fix", "]", "d", "a">>,
    <<"[", "a", "]", "fix", "a">>,
    <<"[", "fix" >> }

(***************************************************************************)
(* The reducer of src/reduce.rs over the heap of src/heap.rs: functions    *)
(* Apply, Bind, Copy, Drop, Shift and Reset, three stacks code, data and   *)
(* kill.  put, get_ref and the accessors of that heap are those above; its *)
(* new_sequence puts the node as it is.  The stacks are kept in the frame: *)
(* con is code, env is data, err is kill, the top of a stack being the     *)
(* last element.                                                           *)
(***************************************************************************)
\* Function::parse: the words that stand for a function
FunctionOf ==
  [w \in {"a", "b", "c", "d", "s", "r"} |->
     CASE w = "a" -> "Apply" [] w = "b" -> "Bind" [] w = "c" -> "Copy"
       [] w = "d" -> "Drop" [] w = "s" -> "Shift" [] w = "r" -> "Reset"]

\* Heap::new_function
new_function(h, func) == put(h, Object("Function", func, NoGc, NoGc))

\* heap.rs Heap::new_sequence: no normalisation
put_sequence(h, head, tail) == put(h, ObjSequence(head, tail))

\* Heap::is_apply .. is_reset: the function a pointer stands for, "none"
\* for a node of another kind
function_at(h, pointer) ==
  LET r == get_ref(h, pointer) IN
  IF r.err # "Ok" THEN [err |-> r.err, val |-> "none"]
  ELSE IF r.object.kind = "Function" THEN [err |-> "Ok", val |-> r.object.val]
  ELSE [err |-> "Ok", val |-> "none"]

\* the loop `for object in items { xs = heap.new_sequence(*object, xs)?; }`
\* of heap.rs and reduce.rs, items in the order the loop visits them
RECURSIVE put_each(_, _, _)
put_each(h, items, xs) ==
  IF items = <<>> THEN Ok(h, xs)
  ELSE Try(put_sequence(h, Head(items), xs),
           LAMBDA r : put_each(r.h, Tail(items), r.val))

\* heap.rs Heap::parse from word i on
RECURSIVE heap_parse_from(_, _, _, _, _)
heap_parse_from(src, i, build, stack, h) ==
  IF i > Len(src)
    THEN IF stack # <<>> THEN Err(h, "Syntax")
         ELSE Try(new_id(h), LAMBDA xs : put_each(xs.h, Reverse(build), xs.val))
  ELSE IF src[i] = "["
    THEN heap_parse_from(src, i + 1, <<>>, Append(stack, build), h)
  ELSE IF src[i] = "]"
    THEN IF stack = <<>> THEN Err(h, "Syntax")
         ELSE Try(new_id(h), LAMBDA nil :
              Try(put_each(nil.h, Reverse(build), nil.val), LAMBDA xs :
              Try(new_block(xs.h, xs.val), LAMBDA block :
              heap_parse_from(src, i + 1, Append(stack[Len(stack)], block.val),
                              SubSeq(stack, 1, Len(stack) - 1), block.h))))
  ELSE Try(IF src[i] \in DOMAIN FunctionOf
             THEN new_function(h, FunctionOf[src[i]])
             ELSE new_word(h, src[i]),
           LAMBDA object :
             heap_parse_from(src, i + 1, Append(build, object.val), stack, object.h))

\* fetch: pop code until the object popped is no sequence
RECURSIVE fetch(_, _)
fetch(code, h) ==
  IF code = <<>> THEN [code |-> code, err |-> "Bug", val |-> NoGc]
  ELSE LET object == code[Len(code)]
           rest == SubSeq(code, 1, Len(code) - 1)
           object_is_sequence == is_sequence(h, object)
       IN IF object_is_sequence.err # "Ok"
            THEN [code |-> rest, err |-> object_is_sequence.err, val |-> NoGc]
          ELSE IF object_is_sequence.val
            THEN fetch(rest \o <<get_sequence_snd(h, object).val,
                                 get_sequence_fst(h, object).val>>, h)
          ELSE [code |-> rest, err |-> "Ok", val |-> object]

\* jump: fetch into buf up to the next reset, which goes back onto code, and
\* return buf as a block
RECURSIVE jump(_, _, _)
jump(code, buf, h) ==
  LET object == fetch(code, h) IN
  IF object.err # "Ok" THEN [code |-> object.code, h |-> h, err |-> object.err, val |-> NoGc]
  ELSE IF function_at(h, object.val).val = "Reset"
    THEN LET block == Try(new_id(h), LAMBDA nil :
                      Try(put_each(nil.h, Reverse(buf), nil.val), LAMBDA xs :
                      new_block(xs.h, xs.val)))
         IN [code |-> Append(object.code, object.val), h |-> block.h,
             err |-> block.err, val |-> block.val]
  ELSE jump(object.code, Append(buf, object.val), h)

\* freeze: the data stack and then the instruction go onto kill
freeze(frame, code) ==
  [frame EXCEPT !.err = frame.err \o frame.env \o <<code>>, !.env = <<>>]

\* the reset arm that removes the reset whatever kill holds
reset_removed(frame, object) == frame

\* the reset arm of reduce
reset(frame, object) ==
  IF frame.err # <<>> THEN freeze(frame, object) ELSE frame

\* the last n entries of a stack taken off
Without(stack, n) == SubSeq(stack, 1, Len(stack) - n)

\* one turn of the loop of reduce after `time -= 1`.  The parser of heap.rs
\* makes no number, and heap.rs has neither is_fix nor a function for it, so
\* the arms for numbers and fix are never taken and are left out
rewrite(frame, h) ==
  LET fetched == fetch(frame.con, h)
      popped == [frame EXCEPT !.con = fetched.code]
      object == fetched.val
      data == frame.env
      n == Len(frame.env)
  IN
  IF fetched.err # "Ok" THEN Crashed(popped, h, fetched.err)
  ELSE IF is_block(h, object).val
    THEN Stepped(push_environment(popped, object), h, "push")
  ELSE LET func == function_at(h, object).val IN
  CASE func = "Apply" ->
         IF n < 2 THEN Stepped(freeze(popped, object), h, "stuck")
         ELSE Get(get_block_body(h, data[n]), popped, h, LAMBDA func_body :
              Stepped([popped EXCEPT !.env = Without(data, 2),
                                     !.con = @ \o <<data[n - 1], func_body.val>>],
                      h, "rule"))
    [] func = "Bind" ->
         IF n < 2 THEN Stepped(freeze(popped, object), h, "stuck")
         ELSE Get(get_block_body(h, data[n]), popped, h, LAMBDA func_body :
              Pushed([popped EXCEPT !.env = Without(data, 2)],
                     Try(put_sequence(h, data[n - 1], func_body.val), LAMBDA sequence :
                     new_block(sequence.h, sequence.val))))
    [] func = "Copy" ->
         IF n = 0 THEN Stepped(freeze(popped, object), h, "stuck")
         ELSE Stepped(push_environment(popped, data[n]), h, "rule")
    [] func = "Drop" ->
         IF n = 0 THEN Stepped(freeze(popped, object), h, "stuck")
         ELSE Stepped([popped EXCEPT !.env = Without(data, 1)], h, "rule")
    [] func = "Shift" ->
         IF n = 0 THEN Stepped(freeze(popped, object), h, "stuck")
         ELSE Get(get_block_body(h, data[n]), popped, h, LAMBDA callback_body :
              Let(jump(popped.con, <<>>, h), LAMBDA continuation :
              IF continuation.err # "Ok"
                THEN Crashed([popped EXCEPT !.env = Without(data, 1),
                                            !.con = continuation.code],
                             continuation.h, continuation.err)
              ELSE Stepped([popped EXCEPT
                              !.env = Append(Without(data, 1), continuation.val),
                              !.con = Append(continuation.code, callback_body.val)],
                           continuation.h, "rule")))
    [] func = "Reset" -> Stepped(reset(popped, object), h, "reset")
    [] OTHER ->
         IF is_id(h, object).val THEN Stepped(popped, h, "noop")
         ELSE Stepped(freeze(popped, object), h, "stuck")

\* reduce after its loop: code from the bottom of the stack up, then data
\* and kill from the top down, each entry put in front of the term
rewrite_exit(frame, h) ==
  Try(new_id(h), LAMBDA xs :
  put_each(xs.h, frame.con \o Reverse(frame.env) \o Reverse(frame.err), xs.val))

(***************************************************************************)
(* Inputs                                                                  *)
(***************************************************************************)
SeqsUpTo(tokens, n) == UNION {[1 .. k -> tokens] : k \in 0 .. n}

\* the words that longer texts are made of: brackets, opcodes and Words
ShortTokens == Tokens \ (LowercaseLetters \cup DOMAIN HintNames)

\* longer programs: each opcode with its operands and without, code spliced
\* in front of pending code, a copy-apply loop, frozen code before values
LongPrograms ==
  { <<"[", "A", "]", "a">>,
    <<"[", "A", "]", "a", "A">>,
    <<"[", "A", "]", "a", "k0">>,
    <<"[", "A", "]", "b">>,
    <<"[", "A", "]", "c">>,
    <<"[", "A", "]", "d">>,
    <<"[", "A", "]", "e">>,
    <<"[", "A", "]", "f">>,
    <<"[", "A", "]", "g">>,
    <<"[", "A", "]", "h">>,
    <<"[", "A", "]", "[", "]", "c">>,
    <<"[", "A", "]", "[", "k0", "]", "c">>,
    <<"[", "A", "]", "[", "A", "]", "b", "c">>,
    <<"[", "A", "]", "[", "]", "f">>,
    <<"[", "A", "]", "[", "]", "g">>,
    <<"[", "d", "a", "]", "d", "a">>,
    <<"[", "[", "A", "]", "]", "a", "b">>,
    <<"a", "[", "A", "]">>,
    <<"A", "[", "]", "d", "f">>,
    <<"[", "k0", "]", "a", "(n)">>,
    <<"[", "A", "]", "k0", "e">>,
    <<"[", "A", "]", "b", "b", "b", "b", "b", "b">>,
    <<"[", "z", "]">> }

\* every text of one word, every text of up to MaxLen of the words above,
\* and the longer programs
Programs ==
  SeqsUpTo(Tokens, 1) \cup SeqsUpTo(ShortTokens, MaxLen) \cup LongPrograms

\* values bound to a key: itself, a block, stuck code, code that runs
BindingSources ==
  { <<"k0">>, <<"[", "A", "]">>, <<"A", "f">>, <<"d", "a">> }

Fuels == 0 .. MaxFuel

\* lines given to Pod::eval: values and programs that bind, share, splice,
\* fail to parse after allocating, and need more nodes than the heap has
PodSources ==
  { <<"A">>, <<"[", "A", "]", "d">>, <<"k0", "A">>, <<"[", "A">>,
    <<"[", "A", "]", "d", "d", "b", "d">> }

PodFuels == {1, MaxFuel}

\* source texts for the reducer of reduce.rs: resets with and without frozen
\* code before them, shifts with and without a reset behind them
RewritePrograms ==
  { <<"r">>, <<"A", "r">>, <<"A", "r", "r">>, <<"a", "r">>,
    <<"[", "A", "]", "r">>, <<"[", "A", "]", "s", "r">>,
    <<"[", "A", "]", "s", "B", "r">>, <<"[", "A", "]", "s">>,
    <<"[", "A", "]", "s", "B">>, <<"s", "r">>, <<"A", "[", "B", "]", "s", "r">>,
    <<"[", "r", "]", "[", "]", "a">>, <<"A", "[", "r", "]", "[", "]", "a">>,
    <<"[", "A", "]", "[", "B", "]", "b">>, <<"[", "A", "]", "c", "d", "r">>,
    <<"[", "c", "]", "s", "r", "r">>, <<"]">> }

(***************************************************************************)
(* State: a Pod (heap, tab) and one call of reduce on it, Step by Step.    *)
(***************************************************************************)
VARIABLES
  heap,        \* Pod.heap
  tab,         \* Pod.tab
  pc,          \* "idle", "parsed", "running", "done", "failed"
  root,        \* the term parse returned, the argument of reduce
  frame,       \* the Thread of the running reduce
  time_quota,  \* its time_quota
  fuel,        \* the time_quota the call was given
  steps,       \* Steps made so far
  did,         \* what the last Step did
  result,      \* Ok(result) of reduce
  error        \* Err(error) of parse or reduce, "Ok" while there is none

\* the record of the calls made on the heap, kept beside it
VARIABLES
  issued,      \* the pointers put has returned
  freed,       \* the pointers whose node a sweep has removed
  marked,      \* the roots mark was called on since the last sweep
  calls        \* the calls made so far

thread_vars == <<tab, pc, root, frame, time_quota, fuel, steps, did, result, error>>
heap_log == <<issued, freed, marked, calls>>
vars == <<heap, thread_vars, heap_log>>

NoFrame == Frame(<<>>, <<>>, <<>>)

\* Pod::with_heap(Heap::with_capacity(Capacity))
\* no reduce under way, no call made on the heap yet
Idle ==
  /\ tab = tab_new
  /\ pc = "idle"
  /\ root = NoGc
  /\ frame = NoFrame
  /\ time_quota = 0
  /\ fuel = 0
  /\ steps = 0
  /\ did = "none"
  /\ result = NoGc
  /\ error = "Ok"
  /\ issued = {}
  /\ freed = {}
  /\ marked = {}
  /\ calls = 0

Init ==
  /\ heap = with_capacity(Capacity)
  /\ Idle

\* Pod::eval of `:key value` for a key not bound yet
Insert(key, value_src, quota) ==
  /\ pc = "idle"
  /\ tab[key] = NoGc
  /\ \E e \in {eval_insert(heap, tab, key, value_src, quota)} :
     /\ heap' = e.h
     /\ tab' = e.tab
     /\ error' = e.err
     /\ pc' = IF e.err = "Ok" THEN "idle" ELSE "failed"
  /\ UNCHANGED <<root, frame, time_quota, fuel, steps, did, result, heap_log>>

\* parse(src, heap)
Parse(src) ==
  /\ pc = "idle"
  /\ \E p \in {parse(src, heap)} :
     /\ heap' = p.h
     /\ root' = p.val
     /\ error' = p.err
     /\ pc' = IF p.err = "Ok" THEN "parsed" ELSE "failed"
  /\ UNCHANGED <<tab, frame, time_quota, fuel, steps, did, result, heap_log>>

\* reduce(root, heap, tab, quota) up to its loop
Start(quota) ==
  /\ pc = "parsed"
  /\ frame' = with_continuation(root)
  /\ time_quota' = quota
  /\ fuel' = quota
  /\ pc' = "running"
  /\ UNCHANGED <<heap, tab, root, steps, did, result, error, heap_log>>

\* one turn of the loop of reduce
Step ==
  /\ pc = "running"
  /\ may_step(frame, time_quota)
  /\ time_quota' = tick(time_quota)
  /\ steps' = steps + 1
  /\ \E s \in {step(frame, heap, tab)} :
     /\ frame' = s.frame
     /\ heap' = s.h
     /\ did' = s.did
     /\ error' = s.err
     /\ pc' = IF s.err = "Ok" THEN "running" ELSE "failed"
  /\ UNCHANGED <<tab, root, fuel, result, heap_log>>

\* reduce after its loop
Exit ==
  /\ pc = "running"
  /\ ~may_step(frame, time_quota)
  /\ \E r \in {reduce_exit(frame, heap)} :
     /\ heap' = r.h
     /\ result' = r.val
     /\ error' = r.err
     /\ pc' = IF r.err = "Ok" THEN "done" ELSE "failed"
  /\ UNCHANGED <<tab, root, frame, time_quota, fuel, steps, did, heap_log>>

Next ==
  \/ \E key \in Keys, value_src \in BindingSources : Insert(key, value_src, MaxFuel)
  \/ \E src \in Programs : Parse(src)
  \/ \E quota \in Fuels : Start(quota)
  \/ Step
  \/ Exit

Spec == Init /\ [][Next]_vars

(***************************************************************************)
(* The machine of src/v1/run.rs, Step by Step                              *)
(***************************************************************************)
V1Parse(src) ==
  /\ pc = "idle"
  /\ \E p \in {parse_from_v1(src, 1, <<>>, <<>>, heap)} :
     /\ heap' = p.h
     /\ root' = p.val
     /\ error' = p.err
     /\ pc' = IF p.err = "Ok" THEN "parsed" ELSE "failed"
  /\ UNCHANGED <<tab, frame, time_quota, fuel, steps, did, result, heap_log>>

\* one turn of the loop of reduce of v1
V1Step ==
  /\ pc = "running"
  /\ may_step(frame, time_quota)
  /\ time_quota' = tick(time_quota)
  /\ steps' = steps + 1
  /\ \E s \in {v1_step(frame, heap, tab)} :
     /\ frame' = s.frame
     /\ heap' = s.h
     /\ did' = s.did
     /\ error' = s.err
     /\ pc' = IF s.err = "Ok" THEN "running" ELSE "failed"
  /\ UNCHANGED <<tab, root, fuel, result, heap_log>>

V1Next ==
  \/ \E src \in V1Programs : V1Parse(src)
  \/ \E quota \in Fuels : Start(quota)
  \/ V1Step

V1Spec == Init /\ [][V1Next]_vars

(***************************************************************************)
(* A Pod driven line by line: each step is one whole call of Pod::eval.    *)
(***************************************************************************)
PodInit ==
  /\ heap = with_capacity(PodCapacity)
  /\ Idle

\* a call of Pod::eval that left e behind
Evaluated(e) ==
  /\ calls < MaxEvals
  /\ calls' = calls + 1
  /\ heap' = e.h
  /\ tab' = e.tab
  /\ error' = e.err
  /\ UNCHANGED <<pc, root, frame, time_quota, fuel, steps, did, result,
                 issued, freed, marked>>

EvalInsert(key, value_src, quota) ==
  \E e \in {eval_insert(heap, tab, key, value_src, quota)} : Evaluated(e)

EvalDelete(key) ==
  \E e \in {eval_delete(heap, tab, key)} : Evaluated(e)

EvalPlain(src, quota) ==
  \E e \in {eval_plain(heap, tab, src, quota)} : Evaluated(e)

PodNext ==
  \/ \E key \in Keys, value_src \in PodSources, quota \in PodFuels :
       EvalInsert(key, value_src, quota)
  \/ \E key \in Keys : EvalDelete(key)
  \/ \E src \in PodSources, quota \in PodFuels : EvalPlain(src, quota)

PodSpec == PodInit /\ [][PodNext]_vars

(***************************************************************************)
(* The reducer of src/reduce.rs, turn by turn                              *)
(***************************************************************************)
\* heap.parse(src)
RewriteParse(src) ==
  /\ pc = "idle"
  /\ \E p \in {heap_parse_from(src, 1, <<>>, <<>>, heap)} :
     /\ heap' = p.h
     /\ root' = p.val
     /\ error' = p.err
     /\ pc' = IF p.err = "Ok" THEN "parsed" ELSE "failed"
  /\ UNCHANGED <<tab, frame, time_quota, fuel, steps, did, result, heap_log>>

\* one turn of `while time > 0 && !code.is_empty()`
RewriteStep ==
  /\ pc = "running"
  /\ may_step(frame, time_quota)
  /\ time_quota' = tick(time_quota)
  /\ steps' = steps + 1
  /\ \E s \in {rewrite(frame, heap)} :
     /\ frame' = s.frame
     /\ heap' = s.h
     /\ did' = s.did
     /\ error' = s.err
     /\ pc' = IF s.err = "Ok" THEN "running" ELSE "failed"
  /\ UNCHANGED <<tab, root, fuel, result, heap_log>>

\* reduce after its loop
RewriteExit ==
  /\ pc = "running"
  /\ ~may_step(frame, time_quota)
  /\ \E r \in {rewrite_exit(frame, heap)} :
     /\ heap' = r.h
     /\ result' = r.val
     /\ error' = r.err
     /\ pc' = IF r.err = "Ok" THEN "done" ELSE "failed"
  /\ UNCHANGED <<tab, root, frame, time_quota, fuel, steps, did, heap_log>>

RewriteNext ==
  \/ \E src \in RewritePrograms : RewriteParse(src)
  \/ \E quota \in Fuels : Start(quota)
  \/ RewriteStep
  \/ RewriteExit

RewriteSpec == Init /\ [][RewriteNext]_vars

(***************************************************************************)
(* The heap driven call by call: constructors, mark and sweep in any      *)
(* order, on any pointer the heap has ever returned, stale ones included.  *)
(***************************************************************************)
\* the pointers of the nodes that h lacks and h2 holds
Allocated(h, h2) ==
  {Gc(i, h2.nodes[i].generation) :
     i \in {j \in Slots(h) : ~IsSome(h.nodes[j]) /\ IsSome(h2.nodes[j])}}

\* the pointers of the nodes that h holds and h2 lacks
Removed(h, h2) ==
  {Gc(i, h.nodes[i].generation) :
     i \in {j \in Slots(h) : IsSome(h.nodes[j]) /\ ~IsSome(h2.nodes[j])}}

\* a call of a constructor that returned r; the roots are marked and the
\* heap swept with no allocation in between, as in Pod::eval
Constructed(r) ==
  /\ marked = {}
  /\ Cardinality(issued) < MaxIssued
  /\ calls < MaxCalls
  /\ calls' = calls + 1
  /\ heap' = r.h
  /\ issued' = issued \cup Allocated(heap, r.h)
  /\ UNCHANGED <<freed, marked, thread_vars>>

HeapInit ==
  /\ heap = with_capacity(HeapCapacity)
  /\ Idle

NewId == \E r \in {new_id(heap)} : Constructed(r)

NewBlock(body) ==
  \E r \in {new_block(heap, body)} : Constructed(r)

NewSequence(fst, snd) ==
  \E r \in {new_sequence(heap, fst, snd)} : Constructed(r)

\* mark is called on the pointers a Pod holds, which are valid: its only
\* caller marks the values of the table
Mark(marked_root) ==
  /\ IsValid(heap, marked_root)
  /\ Cardinality(marked \cup {marked_root}) <= MaxRoots
  /\ calls < MaxCalls
  /\ calls' = calls + 1
  /\ \E r \in {mark(heap, marked_root)} :
       /\ heap' = r.h
       /\ marked' = marked \cup {marked_root}
  /\ UNCHANGED <<issued, freed, thread_vars>>

Sweep ==
  /\ heap.generation < MaxSweeps
  /\ calls < MaxCalls
  /\ calls' = calls + 1
  /\ \E r \in {sweep(heap)} :
       /\ heap' = r.h
       /\ freed' = freed \cup Removed(heap, r.h)
       /\ marked' = {}
  /\ UNCHANGED <<issued, thread_vars>>

HeapNext ==
  \/ NewId
  \/ \E body \in issued : NewBlock(body)
  \/ \E fst \in issued, snd \in issued : NewSequence(fst, snd)
  \/ \E marked_root \in issued : Mark(marked_root)
  \/ Sweep

HeapSpec == HeapInit /\ [][HeapNext]_vars

(***************************************************************************)
(* Reading terms                                                           *)
(***************************************************************************)
\* the leaves of a term from left to right, Id left out
RECURSIVE leaves(_, _)
leaves(h, pointer) ==
  LET r == get_ref(h, pointer) IN
  IF r.err # "Ok" THEN <<pointer>>
  ELSE IF r.object.kind = "Sequence"
    THEN leaves(h, r.object.fst) \o leaves(h, r.object.snd)
  ELSE IF r.object.kind = "Id" THEN <<>>
  ELSE <<pointer>>

\* the text quote writes for a term
text(h, pointer) == quote(h, pointer).buf

\* every pointer of the term is valid
RECURSIVE well_formed(_, _)
well_formed(h, pointer) ==
  LET r == get_ref(h, pointer) IN
  /\ pointer.index \in Slots(h)
  /\ r.err = "Ok"
  /\ r.object.kind = "Block" => well_formed(h, r.object.fst)
  /\ r.object.kind = "Sequence" =>
       well_formed(h, r.object.fst) /\ well_formed(h, r.object.snd)

\* reduce returned after its loop ended with the continuation empty
Emptied == pc = "done" /\ ~has_continuation(frame)
\* reduce returned after its loop ended for lack of fuel
Exhausted == pc = "done" /\ has_continuation(frame)

\* a whole call of reduce on heap h under the table of the state: its loop
Loop(continuation, h, quota) ==
  run(with_continuation(continuation), h, tab, quota, 0)
\* the loop ended without an error and with the continuation empty
Finished(r) == r.err = "Ok" /\ ~has_continuation(r.frame)
\* what reduce returns after that loop
Returned(r) == reduce_exit(r.frame, r.h)
\* both calls returned a term and the two terms have the same text
SameText(a, b) ==
  (a.err = "Ok" /\ b.err = "Ok") => text(a.h, a.val) = text(b.h, b.val)

\* the leaves of the entries of a list of terms, in the order of the list
RECURSIVE leaves_each(_, _)
leaves_each(h, items) ==
  IF items = <<>> THEN <<>>
  ELSE leaves(h, Head(items)) \o leaves_each(h, Tail(items))
\* the elements of a sequence
Range(s) == {s[i] : i \in DOMAIN s}

\* the Results of every is_* and get_* accessor on a pointer
AccessorErrors(h, pointer) ==
  { is_id(h, pointer).err, is_opcode(h, pointer).err, is_word(h, pointer).err,
    is_hint(h, pointer).err, is_block(h, pointer).err,
    is_sequence(h, pointer).err, get_opcode(h, pointer).err,
    get_word(h, pointer).err, get_hint(h, pointer).err,
    get_block_body(h, pointer).err, get_sequence_fst(h, pointer).err,
    get_sequence_snd(h, pointer).err }

\* the pointer that reads the node in slot i now
Stamp(h, i) == Gc(i, h.nodes[i].generation)

\* the pointers a node holds
Children(object) ==
  CASE object.kind = "Block" -> {object.fst}
    [] object.kind = "Sequence" -> {object.fst, object.snd}
    [] OTHER -> {}

\* the nodes reachable from a pointer through block bodies and both
\* children of sequences
RECURSIVE Reach(_, _)
Reach(h, pointer) ==
  IF ~IsValid(h, pointer) THEN {}
  ELSE {pointer} \cup
       UNION {Reach(h, child) : child \in Children(get_ref(h, pointer).object)}

\* the term a pointer stands for, as a tree: kind, payload and children
RECURSIVE tree(_, _)
tree(h, pointer) ==
  LET r == get_ref(h, pointer) IN
  IF ~(pointer.index \in Slots(h)) \/ r.err # "Ok"
    THEN [kind |-> "Null", val |-> "", kids |-> <<>>]
  ELSE CASE r.object.kind = "Block" ->
              [kind |-> "Block", val |-> "", kids |-> <<tree(h, r.object.fst)>>]
         [] r.object.kind = "Sequence" ->
              [kind |-> "Sequence", val |-> "",
               kids |-> <<tree(h, r.object.fst), tree(h, r.object.snd)>>]
         [] OTHER -> [kind |-> r.object.kind, val |-> r.object.val, kids |-> <<>>]

\* the leaf the next Step dispatches, with the frame its pop leaves
Dispatched(f, h) == pop_continuation(f, h)

\* the instruction a pointer stands for, "none" when it is no opcode
OpcodeAt(h, pointer) ==
  IF pointer.index \in Slots(h) /\ get_opcode(h, pointer).err = "Ok"
    THEN get_opcode(h, pointer).val
    ELSE "none"

\* this step is a Step of reduce that dispatches one of these instructions
Dispatches(opcodes) ==
  /\ pc = "running"
  /\ steps' = steps + 1
  /\ Dispatched(frame, heap).err = "Ok"
  /\ OpcodeAt(heap, Dispatched(frame, heap).val) \in opcodes

\* the entries the arm of a primitive asks for before it pops
Arity ==
  [o \in {"App", "Box", "Cat", "Copy", "Drop", "Swap"} |->
     IF o \in {"Cat", "Swap"} THEN 2 ELSE 1]

\* a term that reads: quotations, fewer than the arity of the primitive
\* that follows them, and then that primitive
UnderSupplied(h, pointer) ==
  LET ls == leaves(h, pointer) IN
  /\ ls # <<>>
  /\ OpcodeAt(h, ls[Len(ls)]) \in DOMAIN Arity
  /\ Len(ls) - 1 < Arity[OpcodeAt(h, ls[Len(ls)])]
  /\ \A i \in 1 .. (Len(ls) - 1) : is_block(h, ls[i]).val

\* the outcome of a get_* accessor that asks for kind asks, on a node of
\* kind kind behind a pointer that is valid or not
GetOutcome(asks, kind, valid) ==
  IF ~valid THEN "Null" ELSE IF asks # kind THEN "Tag" ELSE "Ok"

\* every get_* accessor has that outcome on the pointer
GetResults(h, pointer, kind, valid) ==
  /\ get_opcode(h, pointer).err = GetOutcome("Opcode", kind, valid)
  /\ get_word(h, pointer).err = GetOutcome("Word", kind, valid)
  /\ get_hint(h, pointer).err = GetOutcome("Hint", kind, valid)
  /\ get_block_body(h, pointer).err = GetOutcome("Block", kind, valid)
  /\ get_sequence_fst(h, pointer).err = GetOutcome("Sequence", kind, valid)
  /\ get_sequence_snd(h, pointer).err = GetOutcome("Sequence", kind, valid)

\* every is_* accessor returns Ok(its kind is the kind of the node) on a
\* valid pointer and Err(Null) on any other
IsResults(h, pointer, kind, valid) ==
  /\ is_id(h, pointer) = [err |-> GetOutcome("", "", valid), val |-> valid /\ kind = "Id"]
  /\ is_opcode(h, pointer) = [err |-> GetOutcome("", "", valid), val |-> valid /\ kind = "Opcode"]
  /\ is_word(h, pointer) = [err |-> GetOutcome("", "", valid), val |-> valid /\ kind = "Word"]
  /\ is_hint(h, pointer) = [err |-> GetOutcome("", "", valid), val |-> valid /\ kind = "Hint"]
  /\ is_block(h, pointer) = [err |-> GetOutcome("", "", valid), val |-> valid /\ kind = "Block"]
  /\ is_sequence(h, pointer) = [err |-> GetOutcome("", "", valid), val |-> valid /\ kind = "Sequence"]

\* every is_* accessor fails like a get_* accessor: Tag on another kind
IsResultsTagged(h, pointer, kind, valid) ==
  /\ is_id(h, pointer).err = GetOutcome("Id", kind, valid)
  /\ is_opcode(h, pointer).err = GetOutcome("Opcode", kind, valid)
  /\ is_word(h, pointer).err = GetOutcome("Word", kind, valid)
  /\ is_hint(h, pointer).err = GetOutcome("Hint", kind, valid)
  /\ is_block(h, pointer).err = GetOutcome("Block", kind, valid)
  /\ is_sequence(h, pointer).err = GetOutcome("Sequence", kind, valid)

\* the nodes of a term that are no Sequence, from left to right: what
\* pop_continuation can return, Id nodes included
RECURSIVE flat(_, _)
flat(h, pointer) ==
  IF is_sequence(h, pointer).val
    THEN flat(h, get_sequence_fst(h, pointer).val)
           \o flat(h, get_sequence_snd(h, pointer).val)
    ELSE <<pointer>>

\* those of the entries of a continuation, front first
RECURSIVE flat_each(_, _)
flat_each(h, items) ==
  IF items = <<>> THEN <<>>
  ELSE flat(h, Head(items)) \o flat_each(h, Tail(items))

(***************************************************************************)
(* Claims                                                                  *)
(***************************************************************************)

\* C1: reduce makes at most `fuel` Steps, each Step taking exactly one unit
\* of fuel whatever it did (a rule, a frozen instruction, a no-op); the fuel
\* left never goes below zero, every turn of the loop lowers it, and with
\* none left the only move of reduce is to return a term or an error.
C1_ReduceTerminates ==
  /\ [](steps + time_quota = fuel /\ steps <= fuel /\ time_quota >= 0)
  /\ [][pc = "running" =>
         \/ pc' \in {"done", "failed"} /\ steps' <= fuel
         \/ pc' = "running" /\ time_quota > 0
                            /\ steps' = steps + 1
                            /\ time_quota' = time_quota - 1]_vars

\* C1 witness: a divergent program used up all its fuel and reduce returned
C1_Witness ==
  /\ Exhausted
  /\ steps = fuel
  /\ fuel = MaxFuel
  /\ did \in {"rule", "splice"}

\* C2 (as stated): reducing the term returned by reduce(P, f1) with fuel f2
\* returns the same text as reduce(P, f1 + f2).
C2_SplitFuel ==
  pc = "done" =>
    \A f2 \in 0 .. (MaxFuel - fuel) :
      SameText(reduce(result, heap, tab, f2),
               reduce(root, heap, tab, fuel + f2))

\* C3 (as stated): when reduce(P, F) empties the continuation and f1 < F,
\* reducing the term returned by reduce(P, f1) until the continuation
\* empties returns the same text as reduce(P, F).
C3_PartialContinues ==
  Exhausted =>
    \A F \in (fuel + 1) .. MaxFuel, f2 \in 1 .. MaxFuel :
      LET whole == Loop(root, heap, F)
          rest == Loop(result, heap, f2)
      IN  (Finished(whole) /\ Finished(rest)) =>
            SameText(Returned(whole), Returned(rest))

\* C4: a term returned by a reduce whose continuation emptied reduces to
\* itself: reducing it again until the continuation empties returns a term
\* with as many leaves and the same text.
C4_Idempotent ==
  Emptied =>
    \A f2 \in 1 .. MaxFuel :
      LET again == Loop(result, heap, f2)
          term == Returned(again)
      IN  (Finished(again) /\ term.err = "Ok") =>
            /\ Len(leaves(term.h, term.val)) = Len(leaves(heap, result))
            /\ text(term.h, term.val) = text(heap, result)

\* C4 witness: a result holding frozen code and values was reduced again to
\* the end
C4_Witness ==
  /\ Emptied
  /\ frame.err # <<>>
  /\ frame.env # <<>>
  /\ steps >= 3
  /\ Finished(Loop(result, heap, MaxFuel))
  /\ Returned(Loop(result, heap, MaxFuel)).err = "Ok"

C6_EnvironmentThenThunks ==
  Emptied => leaves(heap, result) = frame.env \o frame.err

\* C6: when the continuation empties, reduce returns the thunk list, in the
\* order its entries were frozen, followed by the environment, bottom to top.
C6_ThunksThenEnvironment ==
  Emptied => leaves(heap, result) = frame.err \o frame.env

\* C6 witness: reduce returned with frozen code and values both present
C6_Witness ==
  /\ Emptied
  /\ frame.err # <<>>
  /\ frame.env # <<>>

\* the loop of reduce has ended for lack of fuel, code is still pending
OutOfFuel == pc = "running" /\ time_quota = 0 /\ has_continuation(frame)
\* all that the thread still holds: frozen code, values, pending code
Pending(h, f) == f.err \o f.env \o leaves_each(h, f.con)

\* C7 (as stated): when the loop ends for lack of fuel, reduce returns Ok
\* with a well-formed term and never an error.
C7_NeverAnError ==
  [][(OutOfFuel /\ steps > 0) =>
       pc' = "done" /\ well_formed(heap', result')]_vars

\* C7: when the loop ends for lack of fuel, reduce returns either Ok with a
\* well-formed term holding all that the thread held, or the error Space of
\* a full heap, and no other error.
C7_TermOrSpace ==
  [][OutOfFuel =>
       \/ /\ pc' = "done"
          /\ well_formed(heap', result')
          /\ Len(leaves(heap', result')) = Len(Pending(heap, frame))
          /\ Range(leaves(heap', result')) = Range(Pending(heap, frame))
       \/ pc' = "failed" /\ error' = "Space"]_vars

\* C7 witness: fuel ran out with frozen code, a value and code pending and
\* reduce returned a term
C7_Witness ==
  /\ Exhausted
  /\ fuel > 0
  /\ frame.err # <<>>
  /\ frame.env # <<>>
  /\ well_formed(heap, result)

\* C8: a pointer whose node a sweep has removed fails with Null on every
\* accessor from then on, also once its slot holds a node again; it never
\* equals the stamp of the node its slot holds now, and no pointer that put
\* returns has been returned before.
C8_StalePointers ==
  /\ [](\A p \in freed :
         /\ AccessorErrors(heap, p) = {"Null"}
         /\ IsSome(heap.nodes[p.index]) => Stamp(heap, p.index) # p)
  /\ [][Allocated(heap, heap') \cap issued = {}]_vars

\* C8 witness: a slot swept twice holds a node for the third time
C8_Witness ==
  \E p \in freed, q \in freed :
    /\ p # q
    /\ p.index = q.index
    /\ IsSome(heap.nodes[p.index])
    /\ Stamp(heap, p.index) \in issued

\* C9 (as stated): on an invalid pointer every accessor, mark, new_block
\* and new_sequence (in either position) fails, so that every node holds
\* valid pointers only.
C9_InvalidPointersRefused ==
  /\ \A p \in issued :
       ~IsValid(heap, p) =>
         /\ AccessorErrors(heap, p) = {"Null"}
         /\ mark(heap, p).err # "Ok"
         /\ new_block(heap, p).err # "Ok"
         /\ \A q \in issued :
              /\ new_sequence(heap, p, q).err # "Ok"
              /\ new_sequence(heap, q, p).err # "Ok"
  /\ \A i \in Slots(heap) :
       \A child \in Children(heap.nodes[i].object) : IsValid(heap, child)

\* C10 (as stated): a sweep keeps every node reachable from a root that
\* mark was called on, with its payload and generation, empties every other
\* slot, and leaves no visited flag behind.
C10_Collection ==
  [][heap'.generation # heap.generation =>
       /\ \A r \in marked :
            \A p \in Reach(heap, r) :
              /\ heap'.nodes[p.index].object = heap.nodes[p.index].object
              /\ heap'.nodes[p.index].generation = heap.nodes[p.index].generation
       /\ \A i \in Slots(heap) :
            (/\ IsSome(heap.nodes[i])
             /\ \A r \in marked : Stamp(heap, i) \notin Reach(heap, r))
              => ~IsSome(heap'.nodes[i])
       /\ \A i \in Slots(heap) : ~heap'.nodes[i].is_visible]_vars

\* C11 (as stated): right identity of composition.  For every valid term x
\* and every valid Id node e, new_sequence(x, e) returns a term equal to x
\* and allocates nothing.
C11_RightIdentity ==
  \A x \in issued, e \in issued :
    (well_formed(heap, x) /\ IsValid(heap, e) /\ is_id(heap, e).val) =>
      LET r == new_sequence(heap, x, e) IN
      r.err = "Ok" => (r.h = heap /\ tree(r.h, r.val) = tree(heap, x))

\* the terms the session holds: the program, its result and the bindings
Held == ({root, result} \cup {tab[key] : key \in DOMAIN tab}) \ {NoGc}

\* the terms held that are valid all through
ValidHeld == {pointer \in Held : well_formed(heap, pointer)}

\* C12: associativity of composition.  For all valid terms x, y, z (Empty
\* and Concatenation terms among them), new_sequence(new_sequence(x, y), z)
\* and new_sequence(x, new_sequence(y, z)) are equal as trees whenever both
\* are built.  The terms are those held once a reduction with the largest
\* quota has returned: x is the program, y and z are any of them.
C12_Associative ==
  (pc = "done" /\ fuel = MaxFuel) =>
    LET terms == ValidHeld IN
    \A x \in terms \cap {root}, y \in terms, z \in terms :
      LET xy == new_sequence(heap, x, y)
          left == IF xy.err # "Ok" THEN xy ELSE new_sequence(xy.h, xy.val, z)
          yz == new_sequence(heap, y, z)
          right == IF yz.err # "Ok" THEN yz ELSE new_sequence(yz.h, x, yz.val)
      IN (left.err = "Ok" /\ right.err = "Ok")
         => tree(left.h, left.val) = tree(right.h, right.val)

\* C12 witness: a program of two leaves or more, a binding and a result that
\* is no Id are held, and composing them allocates whichever way it is done
C12_Witness ==
  /\ pc = "done"
  /\ fuel = MaxFuel
  /\ root # result
  /\ \E y \in Held \ {root, result} :
       LET xy == new_sequence(heap, root, y)
           left == IF xy.err # "Ok" THEN xy ELSE new_sequence(xy.h, xy.val, result)
           yz == new_sequence(heap, y, result)
           right == IF yz.err # "Ok" THEN yz ELSE new_sequence(yz.h, root, yz.val)
       IN /\ well_formed(heap, root) /\ well_formed(heap, y) /\ well_formed(heap, result)
          /\ Len(leaves(heap, root)) >= 2
          /\ is_sequence(heap, y).val
          /\ is_sequence(heap, result).val
          /\ left.err = "Ok" /\ right.err = "Ok"
          /\ left.h # heap /\ right.h # heap /\ left.h # right.h

\* the empty slots of a heap
Free(h) == {i \in Slots(h) : ~IsSome(h.nodes[i])}

\* C13: fixed capacity.  The table starts with every slot empty and always
\* has exactly the slots given to with_capacity; an allocation succeeds
\* exactly when some slot is empty and then fills the empty slot of lowest
\* index and nothing else, otherwise it returns Space and leaves the heap
\* as it was; the slots a constructor fills are the lowest empty ones.
C13_FixedCapacity ==
  /\ Free(heap) = 0 .. (HeapCapacity - 1)
  /\ [](/\ Slots(heap) = 0 .. (HeapCapacity - 1)
        /\ \A r \in {new_id(heap)} \cup {new_block(heap, body) : body \in issued} :
             IF Free(heap) = {}
               THEN r.err = "Space" /\ r.h = heap
               ELSE /\ r.err = "Ok"
                    /\ r.val.index \in Free(heap)
                    /\ \A j \in Free(heap) : r.val.index <= j
                    /\ Free(r.h) = Free(heap) \ {r.val.index}
                    /\ \A j \in Slots(heap) \ {r.val.index} :
                         r.h.nodes[j] = heap.nodes[j])
  /\ [][\A i \in Free(heap) \ Free(heap') :
          \A j \in Slots(heap) : j < i => j \notin Free(heap')]_vars

\* C13 witness: after a sweep left a hole below an occupied slot the hole
\* was filled first, and the table is now full
C13_Witness ==
  /\ Free(heap) = {}
  /\ new_id(heap).err = "Space"
  /\ \E i \in Slots(heap), j \in Slots(heap) :
       i < j /\ heap.nodes[i].generation > heap.nodes[j].generation

\* C14: between sweeps no occupied slot is freed, overwritten or re-stamped.
\* Whatever the session does (parsing, a Step of reduce, the exit of reduce,
\* an insert with its collection), a node keeps its kind, payload and
\* generation, or, when the step swept the heap, its slot is emptied.
C14_OccupiedSlotsKept ==
  [][\A i \in Slots(heap) :
       IsSome(heap.nodes[i]) =>
         \/ /\ heap'.nodes[i].object = heap.nodes[i].object
            /\ heap'.nodes[i].generation = heap.nodes[i].generation
         \/ /\ heap'.generation > heap.generation
            /\ ~IsSome(heap'.nodes[i])]_vars

\* C14 witness: after a sweep a Step of reduce has run a rule that allocated
\* its result, next to a node that is there since before the sweep
C14_Witness ==
  /\ pc = "running"
  /\ did = "rule"
  /\ heap.generation >= 1
  /\ frame.env # <<>>
  /\ IsValid(heap, frame.env[Len(frame.env)])
  /\ frame.env[Len(frame.env)].generation = heap.generation
  /\ \E i \in Slots(heap) : IsSome(heap.nodes[i]) /\ heap.nodes[i].generation = 0
  /\ Free(heap) # {}

\* C15: reduce never returns an internal error on well-formed input.  With
\* the program parsed from text and the bindings results of earlier
\* reductions, no Step and no call of the session ends in Underflow or Bug.
C15_NoInternalError ==
  error \notin {"Underflow", "Bug"}

\* C15 witness: a primitive of two operands was dispatched with one operand
\* only, and the Step froze it without popping
C15_Witness ==
  /\ pc = "running"
  /\ did = "stuck"
  /\ error = "Ok"
  /\ Len(frame.err) = 2
  /\ is_block(heap, frame.err[1]).val
  /\ get_opcode(heap, frame.err[2]).err = "Ok"
  /\ get_opcode(heap, frame.err[2]).val \in {"Cat", "Swap"}

\* C16: the two reserved instructions are frozen on every Step that
\* dispatches them, whatever the depth of the environment.  The Step is no
\* error and allocates nothing; nothing is taken from the entries held and
\* nothing is added to them except the instruction itself, which goes onto
\* the thunk list; the continuation loses the instruction only.
C16_ReservedFrozen ==
  [][Dispatches({"Prop", "Forall"}) =>
       /\ did' = "stuck"
       /\ error' = "Ok"
       /\ pc' = "running"
       /\ heap' = heap
       /\ frame'.err \o frame'.env =
            frame.err \o frame.env \o <<Dispatched(frame, heap).val>>
       /\ frame'.err # <<>>
       /\ frame'.err[Len(frame'.err)] = Dispatched(frame, heap).val
       /\ frame'.con = Dispatched(frame, heap).frame.con]_vars

\* C16 witness: a reserved instruction was dispatched with two entries in the
\* environment and frozen behind them
C16_Witness ==
  /\ pc = "running"
  /\ did = "stuck"
  /\ Len(frame.err) = 3
  /\ is_block(heap, frame.err[1]).val
  /\ is_block(heap, frame.err[2]).val
  /\ OpcodeAt(heap, frame.err[3]) \in {"Prop", "Forall"}

\* C17: the stuck protocol.  A Step that dispatches a primitive with fewer
\* entries in the environment than its arity is no error: it appends the
\* environment, bottom to top, and then the instruction to the thunk list,
\* empties the environment, takes only the instruction from the continuation
\* and leaves the heap alone.  Hence a program of quotations followed by an
\* under-supplied primitive, reduced to the end, reads as it did.
C17_StuckProtocol ==
  /\ []((Emptied /\ UnderSupplied(heap, root)) =>
          text(heap, result) = text(heap, root))
  /\ [][(/\ Dispatches(DOMAIN Arity)
         /\ Len(frame.env) < Arity[OpcodeAt(heap, Dispatched(frame, heap).val)]) =>
          /\ did' = "stuck"
          /\ error' = "Ok"
          /\ pc' = "running"
          /\ heap' = heap
          /\ frame'.err = frame.err \o frame.env \o <<Dispatched(frame, heap).val>>
          /\ frame'.env = <<>>
          /\ frame'.con = Dispatched(frame, heap).frame.con]_vars

\* C17 witness: a quotation followed by a primitive of two operands was
\* reduced to the end
C17_Witness ==
  /\ Emptied
  /\ UnderSupplied(heap, root)
  /\ Len(leaves(heap, root)) = 2
  /\ steps >= 2
  /\ text(heap, result) = text(heap, root)

\* C18 (as stated): on a valid pointer whose node is of another kind every
\* is_* and get_* accessor fails with Tag; on a stale pointer every one
\* fails with Null, whatever node is in the slot now.
C18_WrongKindIsTag ==
  \A p \in issued :
    LET kind == heap.nodes[p.index].object.kind
        valid == IsValid(heap, p)
    IN GetResults(heap, p, kind, valid) /\ IsResultsTagged(heap, p, kind, valid)

\* C18 (amended): on a valid pointer whose node is of another kind every
\* get_* accessor fails with Tag, while every is_* accessor returns Ok, true
\* exactly when the kind is the one it asks for; on a stale pointer every
\* is_* and get_* accessor fails with Null, whatever node is in the slot now.
C18_GetIsTagIsReturnsFalse ==
  \A p \in issued :
    LET kind == heap.nodes[p.index].object.kind
        valid == IsValid(heap, p)
    IN GetResults(heap, p, kind, valid) /\ IsResults(heap, p, kind, valid)

\* C18 witness: a stale pointer to an Id whose slot now holds a Block, and a
\* valid pointer to a Sequence
C18_Witness ==
  /\ \E p \in issued :
       /\ ~IsValid(heap, p)
       /\ p \in freed
       /\ IsSome(heap.nodes[p.index])
       /\ heap.nodes[p.index].object.kind = "Block"
  /\ \E q \in issued : IsValid(heap, q) /\ is_sequence(heap, q).val

\* C19: Apply with a non-empty environment pops the top quotation and puts
\* its body at the front of the continuation.  The Step is no error and
\* leaves the heap, the thunk list and the rest of the environment as they
\* were; the leaves of the continuation are then the leaves of the body
\* followed by the leaves that were pending, and the next leaf dispatched
\* comes from the body.
C19_ApplySplicesBody ==
  [][(Dispatches({"App"}) /\ frame.env # <<>>) =>
       LET body == get_block_body(heap, frame.env[Len(frame.env)])
           pending == Dispatched(frame, heap).frame.con
       IN /\ body.err = "Ok"
          /\ did' = "rule"
          /\ error' = "Ok"
          /\ heap' = heap
          /\ frame'.env = SubSeq(frame.env, 1, Len(frame.env) - 1)
          /\ frame'.err = frame.err
          /\ frame'.con = <<body.val>> \o pending
          /\ leaves_each(heap', frame'.con) =
               leaves(heap, body.val) \o leaves_each(heap, pending)
          /\ Dispatched(frame', heap').val \in Reach(heap, body.val)]_vars

\* C19 witness: the program was a quotation, Apply and one more leaf; Apply
\* has just run and the body is in front of that leaf
C19_Witness ==
  /\ pc = "running"
  /\ did = "rule"
  /\ steps = 2
  /\ Len(leaves(heap, root)) = 3
  /\ OpcodeAt(heap, leaves(heap, root)[2]) = "App"
  /\ frame.env = <<>>
  /\ Len(frame.con) = 2
  /\ frame.con[1] = get_block_body(heap, leaves(heap, root)[1]).val
  /\ leaves(heap, frame.con[1]) # <<>>
  /\ leaves(heap, frame.con[2]) = <<leaves(heap, root)[3]>>

\* C20: Concatenate with two environment entries or more pops rhs (the top)
\* and lhs (the one below) and pushes one new quotation whose body reads
\* the body of lhs followed by the body of rhs; the environment is one
\* entry shorter and is otherwise as it was, like the thunk list and the
\* rest of the continuation.  The Step fails only for lack of space.
C20_Concatenate ==
  [][(Dispatches({"Cat"}) /\ Len(frame.env) >= 2) =>
       LET n == Len(frame.env)
           rhs_body == get_block_body(heap, frame.env[n])
           lhs_body == get_block_body(heap, frame.env[n - 1])
           target == frame'.env[n - 1]
       IN /\ error' \in {"Ok", "Space"}
          /\ error' = "Ok" =>
               /\ did' = "rule"
               /\ Len(frame'.env) = n - 1
               /\ SubSeq(frame'.env, 1, n - 2) = SubSeq(frame.env, 1, n - 2)
               /\ target.index \in Free(heap)
               /\ is_block(heap', target).val
               /\ lhs_body.err = "Ok" /\ rhs_body.err = "Ok"
               /\ leaves(heap', get_block_body(heap', target).val) =
                    leaves(heap, lhs_body.val) \o leaves(heap, rhs_body.val)
               /\ frame'.err = frame.err
               /\ frame'.con = Dispatched(frame, heap).frame.con]_vars

\* C20 witness: two quotations of one leaf each, then Concatenate; the Step
\* has run and the environment holds one quotation of the two leaves
C20_Witness ==
  /\ pc = "running"
  /\ did = "rule"
  /\ steps = 3
  /\ Len(leaves(heap, root)) = 3
  /\ OpcodeAt(heap, leaves(heap, root)[3]) = "Cat"
  /\ Len(frame.env) = 1
  /\ LET body == leaves(heap, get_block_body(heap, frame.env[1]).val) IN
     /\ Len(body) = 2
     /\ body[1] # body[2]
     /\ <<body[1]>> = leaves(heap, get_block_body(heap, leaves(heap, root)[1]).val)
     /\ <<body[2]>> = leaves(heap, get_block_body(heap, leaves(heap, root)[2]).val)

\* C21: the value primitives rewrite only the environment when their
\* operands are there.  Box replaces the top x by one new quotation whose
\* body is x (the only allocation, and the only way the Step can fail, with
\* Space); Copy pushes the pointer on top once more, popping and allocating
\* nothing; Drop removes the top; Swap exchanges the two on top.  The
\* entries below, the thunk list and the rest of the continuation stay.
C21_ValuePrimitives ==
  [][(/\ Dispatches({"Box", "Copy", "Drop", "Swap"})
      /\ Len(frame.env) >= Arity[OpcodeAt(heap, Dispatched(frame, heap).val)]) =>
       LET n == Len(frame.env)
           opcode == OpcodeAt(heap, Dispatched(frame, heap).val)
       IN /\ error' \in {"Ok", "Space"}
          /\ opcode # "Box" => error' = "Ok" /\ heap' = heap
          /\ error' = "Ok" =>
               /\ did' = "rule"
               /\ frame'.err = frame.err
               /\ frame'.con = Dispatched(frame, heap).frame.con
               /\ opcode = "Box" =>
                    /\ Len(frame'.env) = n
                    /\ SubSeq(frame'.env, 1, n - 1) = SubSeq(frame.env, 1, n - 1)
                    /\ Free(heap') = Free(heap) \ {frame'.env[n].index}
                    /\ frame'.env[n].index \in Free(heap)
                    /\ get_ref(heap', frame'.env[n]).object = ObjBlock(frame.env[n])
               /\ opcode = "Copy" => frame'.env = Append(frame.env, frame.env[n])
               /\ opcode = "Drop" => frame'.env = SubSeq(frame.env, 1, n - 1)
               /\ opcode = "Swap" =>
                    frame'.env = SubSeq(frame.env, 1, n - 2)
                                   \o <<frame.env[n], frame.env[n - 1]>>]_vars

\* C21 witness: two different quotations, then Swap; the Step has run and
\* the environment holds them the other way round
C21_Witness ==
  /\ pc = "running"
  /\ did = "rule"
  /\ steps = 3
  /\ Len(leaves(heap, root)) = 3
  /\ OpcodeAt(heap, leaves(heap, root)[3]) = "Swap"
  /\ leaves(heap, root)[1] # leaves(heap, root)[2]
  /\ frame.env = <<leaves(heap, root)[2], leaves(heap, root)[1]>>

\* C22: Fix with a non-empty environment pops a quotation Q and pushes one
\* new quotation whose body reads Q itself, the Fix instruction, then the
\* body of Q; the entries below, the thunk list and the rest of the
\* continuation stay, and the Step fails only for lack of space.  Applying
\* the new quotation dispatches Q and Fix before the body of Q.
C22_Fix ==
  [][(Dispatches({"Fix"}) /\ frame.env # <<>>) =>
       LET n == Len(frame.env)
           source_body == get_block_body(heap, frame.env[n])
           target == frame'.env[n]
       IN /\ error' \in {"Ok", "Space"}
          /\ error' = "Ok" =>
               /\ did' = "rule"
               /\ Len(frame'.env) = n
               /\ SubSeq(frame'.env, 1, n - 1) = SubSeq(frame.env, 1, n - 1)
               /\ target.index \in Free(heap)
               /\ is_block(heap', target).val
               /\ source_body.err = "Ok"
               /\ leaves(heap', get_block_body(heap', target).val) =
                    <<frame.env[n], Dispatched(frame, heap).val>>
                      \o leaves(heap, source_body.val)
               /\ frame'.err = frame.err
               /\ frame'.con = Dispatched(frame, heap).frame.con]_vars

\* C22 witness: `[A] fix a` after five Steps: the quotation Fix built was
\* applied, which pushed Q and ran Fix on it again, before the body of Q
C22_Witness ==
  /\ pc = "running"
  /\ did = "rule"
  /\ steps = 5
  /\ Len(leaves(heap, root)) = 3
  /\ OpcodeAt(heap, leaves(heap, root)[2]) = "Fix"
  /\ OpcodeAt(heap, leaves(heap, root)[3]) = "App"
  /\ Len(frame.env) = 1
  /\ LET body == leaves(heap, get_block_body(heap, frame.env[1]).val) IN
     /\ Len(body) = 3
     /\ body[1] = leaves(heap, root)[1]
     /\ body[2] = leaves(heap, root)[2]
     /\ <<body[3]>> = leaves(heap, get_block_body(heap, body[1]).val)
  /\ leaves_each(heap, frame.con) =
       leaves(heap, get_block_body(heap, leaves(heap, root)[1]).val)

\* C23: leaves are dispatched in left-to-right program order, one for each
\* Step.  The leaf a Step dispatches is the first leaf of the continuation;
\* the pop takes that leaf and no other; after the Step the continuation
\* reads the code the Step has put in front, if any, and then the leaves
\* that were pending, in their order; only Apply and a bound word put code.
C23_LeftToRight ==
  [][(pc = "running" /\ steps' = steps + 1) =>
       LET pending == flat_each(heap, frame.con)
           popped == Dispatched(frame, heap)
           after == flat_each(heap', frame'.con)
       IN /\ popped.err = "Ok"
          /\ popped.val = Head(pending)
          /\ flat_each(heap, popped.frame.con) = Tail(pending)
          /\ Len(after) >= Len(pending) - 1
          /\ SubSeq(after, Len(after) - Len(pending) + 2, Len(after)) = Tail(pending)
          /\ (did' \notin {"splice"} /\ OpcodeAt(heap, popped.val) # "App")
               => after = Tail(pending)]_vars

\* C23 witness: two Steps into a program of four leaves or more, none of
\* which put code: the continuation holds the leaves from the third on
C23_Witness ==
  /\ pc = "running"
  /\ steps = 2
  /\ did = "push"
  /\ Len(leaves(heap, root)) >= 4
  /\ Len(frame.con) >= 1
  /\ flat_each(heap, frame.con) =
       SubSeq(flat(heap, root), 3, Len(flat(heap, root)))

\* C24 (as stated): when reduce returns for lack of fuel with one entry or
\* more pending, the term reads the flushed environment and then the pending
\* entries of the continuation, front of the queue first.
C24_PendingInOrder ==
  Exhausted =>
    leaves(heap, result) =
      leaves_each(heap, frame.err \o frame.env) \o leaves_each(heap, frame.con)

\* the Sequence nodes of a heap
Sequences(h) ==
  {i \in Slots(h) : IsSome(h.nodes[i]) /\ h.nodes[i].object.kind = "Sequence"}

\* C25: normal form of the heap.  Whatever has been parsed, bound and
\* reduced, no Sequence node of the heap has a left child that is an Id or a
\* Sequence: its left child is a valid pointer to a node of another kind.
C25_NormalForm ==
  [](\A i \in Sequences(heap) :
       LET fst == get_ref(heap, heap.nodes[i].object.fst) IN
       /\ fst.err = "Ok"
       /\ fst.object.kind \notin {"Id", "Sequence"})

\* C25 witness: reduce ran out of fuel with two values or more in the
\* environment, so that its last new_sequence had a Sequence on the left, and
\* the term it returned starts with the first of them
C25_Witness ==
  /\ Exhausted
  /\ Len(frame.env) >= 2
  /\ frame.err = <<>>
  /\ is_sequence(heap, result).val
  /\ get_sequence_fst(heap, result).val = frame.env[1]
  /\ Cardinality(Sequences(heap)) >= 4

\* where following right children from a node ends
RECURSIVE chain_end(_, _)
chain_end(h, pointer) ==
  IF is_sequence(h, pointer).val
    THEN chain_end(h, get_sequence_snd(h, pointer).val)
    ELSE pointer

\* the kind of the node a chain ends at, "Null" for an invalid pointer
EndKind(h, pointer) ==
  LET r == get_ref(h, chain_end(h, pointer)) IN
  IF r.err = "Ok" THEN r.object.kind ELSE "Null"

\* C26 (as stated): following right children from any Sequence node of the
\* heap ends at an Id.
C26_EmptyTerminated ==
  \A i \in Sequences(heap) : EndKind(heap, Stamp(heap, i)) = "Id"

\* C26: every chain the parser builds ends at an Id, and every chain in the
\* heap ends at an Id or at a Block (Cat composes the bodies of its operands,
\* and the body of a boxed value is that value), never at an Opcode, a Word
\* or a Hint.
C26_ChainEnds ==
  [](/\ \A i \in Sequences(heap) : EndKind(heap, Stamp(heap, i)) \in {"Id", "Block"}
     /\ \A p \in Reach(heap, root) :
          is_sequence(heap, p).val => EndKind(heap, p) = "Id")

\* C26 witness: Cat has composed a body with the body of a boxed value, and
\* the chain of the result ends at that value
C26_Witness ==
  /\ pc = "running"
  /\ steps = 4
  /\ did = "rule"
  /\ Len(frame.env) = 1
  /\ is_sequence(heap, get_block_body(heap, frame.env[1]).val).val
  /\ EndKind(heap, get_block_body(heap, frame.env[1]).val) = "Block"
  /\ \E p \in Reach(heap, root) : is_sequence(heap, p).val

\* C27: dispatch of a word.  A Step that dispatches a word bound in the
\* table puts the binding at the front of the continuation, leaves the
\* environment and the thunk list as they were and allocates nothing; a Step
\* that dispatches a word with no binding appends the environment and then
\* the word to the thunk list and empties the environment, as for a stuck
\* opcode; and no step of reduce changes the table.
C27_WordDispatch ==
  [][/\ pc = "running" => tab' = tab
     /\ (/\ pc = "running"
         /\ steps' = steps + 1
         /\ Dispatched(frame, heap).err = "Ok"
         /\ is_word(heap, Dispatched(frame, heap).val).val) =>
          LET popped == Dispatched(frame, heap)
              name == get_word(heap, popped.val).val
              bound == name \in DOMAIN tab /\ tab[name] # NoGc
          IN /\ error' = "Ok"
             /\ heap' = heap
             /\ bound =>
                  /\ frame'.con = <<tab[name]>> \o popped.frame.con
                  /\ frame'.env = frame.env
                  /\ frame'.err = frame.err
                  /\ did' # "stuck"
             /\ ~bound =>
                  /\ frame'.con = popped.frame.con
                  /\ frame'.env = <<>>
                  /\ frame'.err = frame.err \o frame.env \o <<popped.val>>
                  /\ did' = "stuck"]_vars

\* C27 witness: a bound word was dispatched with a value in the environment
\* and code pending behind it
C27_Witness ==
  /\ pc = "running"
  /\ did = "splice"
  /\ frame.env # <<>>
  /\ frame.err = <<>>
  /\ Len(frame.con) >= 2
  /\ frame.con[1] = tab["k0"]

\* the pointers of the nodes a heap holds
Survivors(h) == {Stamp(h, i) : i \in {j \in Slots(h) : IsSome(h.nodes[j])}}

\* C28 (as stated): marks accumulate and commute.  With every flag clear,
\* for any two valid roots a and b: marking a and then b and sweeping keeps
\* exactly what is reachable from a or from b; marking b and then a leaves
\* the same heap after the sweep; and marking a a second time changes
\* nothing.
C28_MarksAccumulate ==
  marked = {} =>
    \A a \in {p \in issued : IsValid(heap, p)}, b \in {p \in issued : IsValid(heap, p)} :
      LET ma == mark(heap, a).h
          mab == mark(ma, b).h
          mba == mark(mark(heap, b).h, a).h
      IN /\ Survivors(sweep(mab).h) = Reach(heap, a) \cup Reach(heap, b)
         /\ sweep(mab).h = sweep(mba).h
         /\ mark(ma, a).h = ma

\* C29: bindings never go stale.  After any calls of Pod::eval (insert,
\* delete, any other line, returning Ok or an error) every pointer stored in
\* the table is valid and so is every pointer of the term it stands for.
C29_BindingsStayValid ==
  \A value \in tab_values(tab) : well_formed(heap, value)

\* C29 witness: a binding that is a composed term has come through two
\* collections and a call that failed
C29_Witness ==
  /\ calls >= 3
  /\ heap.generation >= 2
  /\ error # "Ok"
  /\ tab["k0"] # NoGc
  /\ is_sequence(heap, tab["k0"]).val
  /\ well_formed(heap, tab["k0"])

\* C30 (as stated): when a call of Pod::eval has returned, Ok or not, the
\* heap holds the nodes reachable from the table and no other, and no
\* visited flag is set.
C30_EvalCollects ==
  /\ Survivors(heap) = UNION {Reach(heap, value) : value \in tab_values(tab)}
  /\ \A i \in Slots(heap) : ~heap.nodes[i].is_visible

\* C31: typing of the environment.  In every state of a run of reduce on a
\* parsed program under a table of reduced bindings, every entry of the
\* environment is a valid pointer to a Block; no Step and no exit fails with
\* Tag or Null, and a reduce that has started fails with Space or not at
\* all.
C31_EnvironmentTyped ==
  [](/\ \A i \in DOMAIN frame.env :
          /\ IsValid(heap, frame.env[i])
          /\ get_ref(heap, frame.env[i]).object.kind = "Block"
     /\ error \notin {"Tag", "Null"}
     /\ (pc = "failed" /\ root # NoGc) => error = "Space")

\* C31 witness: after three Steps or more the environment holds two entries
\* or more, one of them a block that a rule allocated during the run
C31_Witness ==
  /\ pc = "running"
  /\ steps >= 3
  /\ did = "rule"
  /\ Len(frame.env) >= 2
  /\ \E i \in DOMAIN frame.env : frame.env[i] \notin Reach(heap, root)
  /\ \A i \in DOMAIN frame.env : is_block(heap, frame.env[i]).val

\* C32 (as stated): a constructor call that returns an error leaves every
\* slot of the heap as it was.  The calls are new_id, new_block on any term
\* held and new_sequence on any two terms held, on the heap of the state.
C32_FailedConstructorKeepsHeap ==
  /\ new_id(heap).err # "Ok" => new_id(heap).h = heap
  /\ \A body \in Held :
       new_block(heap, body).err # "Ok" => new_block(heap, body).h = heap
  /\ \A fst \in Held, snd \in Held :
       LET r == new_sequence(heap, fst, snd) IN
       r.err # "Ok" => r.h = heap

\* the resets of the program that are pending or frozen: the leaves of the
\* code stack and the entries of kill that are a Reset
Resets(h, f) ==
  LET items == flat_each(h, Reverse(f.con)) \o f.err IN
  Cardinality({i \in DOMAIN items : function_at(h, items[i]).val = "Reset"})

\* C33: a Step removes a reset only while kill is empty.  A turn of reduce
\* that fetches a Reset with kill empty takes it off and leaves data and
\* kill as they are; with kill not empty it puts data and then the Reset
\* onto kill; no other turn lowers the number of resets pending or frozen;
\* and the term reduce returns reads kill, then data, then the code left.
C33_ResetKept ==
  [][/\ (pc = "running" /\ steps' = steps + 1 /\ error' = "Ok") =>
          LET fetched == fetch(frame.con, heap)
              is_reset == function_at(heap, fetched.val).val = "Reset"
          IN /\ (is_reset /\ frame.err = <<>>) =>
                  /\ frame'.err = <<>>
                  /\ frame'.env = frame.env
                  /\ Resets(heap', frame') = Resets(heap, frame) - 1
             /\ (is_reset /\ frame.err # <<>>) =>
                  /\ frame'.err = frame.err \o frame.env \o <<fetched.val>>
                  /\ frame'.env = <<>>
                  /\ Resets(heap', frame') = Resets(heap, frame)
             /\ ~is_reset => Resets(heap', frame') >= Resets(heap, frame)
     /\ (pc = "running" /\ pc' = "done") =>
          leaves(heap', result') =
            leaves_each(heap, frame.err \o frame.env \o Reverse(frame.con))
    ]_vars

\* C33 witness: a reset fetched after frozen code was frozen with it and is
\* the last leaf of the term returned
C33_Witness ==
  /\ pc = "done"
  /\ Len(frame.err) >= 2
  /\ function_at(heap, frame.err[Len(frame.err)]).val = "Reset"
  /\ leaves(heap, result)[Len(leaves(heap, result))] = frame.err[Len(frame.err)]

\* C34 (as stated): reduce never returns Bug on a parsed program.
C34_NoBug ==
  error # "Bug"

=============================================================================
